---- MODULE Spec2Model ----
(***************************************************************************)
(* Verification model of the data-weaver pipeline (KoroS11/Kiro_3):        *)
(*   - utils/dataMerger.js      : mergeOrdersWithWeather                   *)
(*   - utils/dateNormalizer     : normalizeDatesInRows (src/unnamed/part_001) *)
(*   - utils/csvParser.js       : parseCsvText                             *)
(*   - utils/metricsCalculator.js : calculateMetricsAndCharts              *)
(*   - the weather proxy of the dev server (code listed in README.md)      *)
(*   - components/DataLoader.jsx : onLoad, the run of the whole pipeline   *)
(* Dates are kept as the program keeps them: ISO strings, here sequences   *)
(* of one-character strings, parsed and formatted as the code does.        *)
(***************************************************************************)
EXTENDS Integers, Sequences, FiniteSets, TLC

VARIABLES
    \* ---- mergeOrdersWithWeather (dataMerger.js) ----
    orderRows,      \* argument: rows with date_iso, total_orders
    weatherRows,    \* argument: rows with date_iso, temperature_c, rainfall_mm, humidity_pct
    optMaxGapDays,  \* argument: options.maxGapDays
    mpc,            \* position inside mergeOrdersWithWeather
    dailyOrders,    \* const dailyOrders
    weatherByDate,  \* const weatherByDate (a Map, here a function on its keys)
    mergeIdx,       \* position of the for..of loop over dailyOrders
    merged,         \* const merged
    warnings,       \* const warnings
    mergeResult,    \* the returned object
    \* ---- normalizeDatesInRows (part_001) ----
    rows,           \* argument: rows, each with the raw date value
    onMissingDate,  \* argument: options.onMissingDate
    timezoneOffset, \* environment: minutes the local timezone is east of UTC
    npc,            \* position inside normalizeDatesInRows
    rowIdx,         \* loop variable i
    families,       \* const families (a Set)
    normalized,     \* const normalized
    droppedMissing, \* let droppedMissing
    cursor,         \* let cursor of the scan for missing calendar days
    missing,        \* const missing
    normResult,     \* the returned object
    \* ---- parseCsvText (csvParser.js) ----
    text,           \* argument: the text, held as its lines
    sourceName,     \* argument: options.sourceName
    cpc,            \* position inside parseCsvText
    delimiter,      \* const delimiter
    normalizedHeaders, \* const normalizedHeaders
    csvRows,        \* const rows
    csvWarnings,    \* const warnings
    canonicalColumnMap, \* const canonicalColumnMap
    canonicalRows,  \* const canonicalRows
    csvIdx,         \* loop variable i of the loop over rows
    csvResult,      \* the returned object
    \* ---- calculateMetricsAndCharts (metricsCalculator.js) ----
    mergedRows,     \* argument: the merged rows
    rainThresholdMm, \* argument: options.rainThresholdMm
    kpc,            \* position inside calculateMetricsAndCharts
    sortedRows,     \* const rows
    temperatures,   \* const temperatures
    p25,            \* const p25
    p75,            \* const p75
    metricWarnings, \* const warnings
    movingAvg7,     \* const movingAvg7
    enriched,       \* const enriched
    metricsResult,  \* the returned object
    \* ---- repeated calls of the three stages on the same arguments ----
    calling,        \* the stage whose call is on the stack, or "none"
    results,        \* what each stage's calls have returned so far, in call order
    \* ---- the weather proxy (weatherApiProxyPlugin, README.md) ----
    cache,          \* const cache (a Map, here a function on its keys)
    clock,          \* Date.now(), in units of 12 hours
    served,         \* requests received so far
    hpc,            \* position of handler in the request being handled
    request,        \* the request: method, whether the key is set, and the body
    toFetch,        \* const toFetch
    nextIdx,        \* let idx of runWithConcurrency
    runners,        \* the runners of runWithConcurrency: where each one is
    bulkRows,       \* const rows of handler
    failures,       \* const failures of handler
    handed,         \* the dates given to the worker so far, in order
    response,       \* what handler has written with res.end, if anything
    \* ---- DataLoader (components/DataLoader.jsx) ----
    ordersFile,     \* const [ordersFile, setOrdersFile]
    weatherFile,    \* const [weatherFile, setWeatherFile]
    location,       \* const [location, setLocation]
    autoFetchWeather, \* const [autoFetchWeather, setAutoFetchWeather]
    runProgress,    \* const [runProgress, setRunProgress]
    state,          \* the state of App that DataLoader receives with setState
    lpc,            \* position of onLoad in the run that is under way
    runNo,          \* runs started so far
    run             \* the locals of onLoad in the run that is under way

mergeVars == <<orderRows, weatherRows, optMaxGapDays, mpc, dailyOrders, weatherByDate,
               mergeIdx, merged, warnings, mergeResult>>
normVars == <<rows, onMissingDate, timezoneOffset, npc, rowIdx, families, normalized, droppedMissing,
              cursor, missing, normResult>>
csvVars == <<text, sourceName, cpc, delimiter, normalizedHeaders, csvRows, csvWarnings,
             canonicalColumnMap, canonicalRows, csvIdx, csvResult>>
metricsVars == <<mergedRows, rainThresholdMm, kpc, sortedRows, temperatures, p25, p75,
                 metricWarnings, movingAvg7, enriched, metricsResult>>
rerunVars == <<calling, results>>
proxyVars == <<cache, clock, served, hpc, request, toFetch, nextIdx, runners, bulkRows,
               failures, handed, response>>
loaderVars == <<ordersFile, weatherFile, location, autoFetchWeather, runProgress, state,
                lpc, runNo, run>>
vars == <<mergeVars, normVars, csvVars, metricsVars, rerunVars, proxyVars, loaderVars>>

-----------------------------------------------------------------------------
(* Bounds of the model *)

\* number of consecutive calendar days the merge inputs are drawn from
NumDays == 5
\* most rows the two arguments of the merge hold together
MaxRows == 3
\* longest rows argument of normalizeDatesInRows
MaxBatch == 2

-----------------------------------------------------------------------------
(* JavaScript values: numbers (exact fractions), null, NaN/undefined *)

Null == [k |-> "null", n |-> 0, d |-> 1]
NaN == [k |-> "nan", n |-> 0, d |-> 1]
Num(x) == [k |-> "num", n |-> x, d |-> 1]

Abs(x) == IF x < 0 THEN -x ELSE x

RECURSIVE Gcd(_, _)
Gcd(a, b) == IF b = 0 THEN a ELSE Gcd(b, a % b)

\* a / b for b > 0, as the exact quotient in lowest terms
Quot(a, b) ==
    LET g == Gcd(Abs(a), b) IN [k |-> "num", n |-> a \div g, d |-> b \div g]

\* Number(value): null becomes 0, undefined/NaN stays NaN
NumberOf(v) == IF v.k = "null" THEN Num(0) ELSE v

\* Number.isFinite(value): no coercion, so null is not finite
IsFinite(v) == v.k = "num"

\* a + b on finite numbers
Plus(a, b) ==
    LET nn == a.n * b.d + b.n * a.d
        dd == a.d * b.d
    IN Quot(nn, dd)

-----------------------------------------------------------------------------
(* Strings as sequences of characters *)

Digits == <<"0", "1", "2", "3", "4", "5", "6", "7", "8", "9">>
DigitChars == {Digits[j] : j \in 1..10}

IsDigit(c) == c \in DigitChars
DigitVal(c) ==
    CASE c = "0" -> 0 [] c = "1" -> 1 [] c = "2" -> 2 [] c = "3" -> 3 [] c = "4" -> 4
      [] c = "5" -> 5 [] c = "6" -> 6 [] c = "7" -> 7 [] c = "8" -> 8 [] c = "9" -> 9

\* UTF-16 code unit order of the characters that occur in dates
CharCode(c) ==
    CASE c = " " -> 32
      [] c = "," -> 44
      [] c = "-" -> 45
      [] c = "/" -> 47
      [] c \in DigitChars -> 48 + DigitVal(c)
      [] c = ":" -> 58
      [] OTHER -> 84

\* a < b on strings
RECURSIVE StrLess(_, _)
StrLess(a, b) ==
    IF b = <<>> THEN FALSE
    ELSE IF a = <<>> THEN TRUE
    ELSE IF CharCode(Head(a)) # CharCode(Head(b))
         THEN CharCode(Head(a)) < CharCode(Head(b))
         ELSE StrLess(Tail(a), Tail(b))

\* Number("dddd") for a string of digits
RECURSIVE DigitsToNum(_)
DigitsToNum(s) ==
    IF s = <<>> THEN 0 ELSE 10 * DigitsToNum(SubSeq(s, 1, Len(s) - 1)) + DigitVal(s[Len(s)])

\* String(n) for n >= 0
RECURSIVE NumToStr(_)
NumToStr(n) ==
    IF n < 10 THEN <<Digits[n + 1]>> ELSE NumToStr(n \div 10) \o <<Digits[(n % 10) + 1]>>

RECURSIVE PadStart(_, _)
PadStart(s, width) == IF Len(s) >= width THEN s ELSE PadStart(<<"0">> \o s, width)

pad2(n) == PadStart(NumToStr(n), 2)

-----------------------------------------------------------------------------
(* The JavaScript Date of a local calendar day *)

IsLeap(y) == (y % 4 = 0 /\ y % 100 # 0) \/ y % 400 = 0

DaysInMonth(y, m0) ==
    IF m0 = 1 THEN (IF IsLeap(y) THEN 29 ELSE 28)
    ELSE IF m0 \in {3, 5, 8, 10} THEN 30 ELSE 31

\* carries a day number outside its month into the neighbouring months
RECURSIVE NormalizeDate(_, _, _)
NormalizeDate(y, m0, d) ==
    IF m0 > 11 THEN NormalizeDate(y + 1, m0 - 12, d)
    ELSE IF m0 < 0 THEN NormalizeDate(y - 1, m0 + 12, d)
    ELSE IF d > DaysInMonth(y, m0) THEN NormalizeDate(y, m0 + 1, d - DaysInMonth(y, m0))
    ELSE IF d < 1 THEN
        (IF m0 = 0 THEN NormalizeDate(y - 1, 11, d + 31)
         ELSE NormalizeDate(y, m0 - 1, d + DaysInMonth(y, m0 - 1)))
    ELSE [year |-> y, month |-> m0, day |-> d]

\* new Date(year, monthIndex, day): a year 0..99 means 1900 + year
NewDate(y, m0, d) == NormalizeDate(IF y >= 0 /\ y <= 99 THEN 1900 + y ELSE y, m0, d)

\* toIsoDateFromDate(dt) / toIsoDateFromParts(year, month, day)
toIsoDateFromParts(year, month, day) ==
    PadStart(NumToStr(year), 4) \o <<"-">> \o pad2(month) \o <<"-">> \o pad2(day)

toIsoDateFromDate(dt) == toIsoDateFromParts(dt.year, dt.month + 1, dt.day)

\* parseIsoToDate(dateIso): split on '-', Number() each part, new Date(y, m - 1, d)
parseIsoToDate(dateIso) ==
    NewDate(DigitsToNum(SubSeq(dateIso, 1, 4)),
            DigitsToNum(SubSeq(dateIso, 6, 7)) - 1,
            DigitsToNum(SubSeq(dateIso, 9, 10)))

\* addDays(dateIso, deltaDays): dt.setDate(dt.getDate() + deltaDays)
addDays(dateIso, deltaDays) ==
    LET dt == parseIsoToDate(dateIso)
    IN toIsoDateFromDate(NormalizeDate(dt.year, dt.month, dt.day + deltaDays))

-----------------------------------------------------------------------------
(* dataMerger.js *)

\* Map.prototype.set
MapSet(f, key, v) == [x \in (DOMAIN f) \cup {key} |-> IF x = key THEN v ELSE f[x]]

EmptyMap == [x \in {} |-> 0]

\* Array.prototype.sort() of a set of distinct strings
SortStrings(S) ==
    [j \in 1..Cardinality(S) |->
        CHOOSE x \in S : Cardinality({y \in S : StrLess(y, x)}) = j - 1]

\* a variant of OrdersByDate that stores the row's count instead of adding it
RECURSIVE OrdersByDate_Overwrite(_, _, _)
OrdersByDate_Overwrite(rs, from, byDate) ==
    IF from > Len(rs) THEN byDate
    ELSE LET dateIso == rs[from].date_iso
             orders == NumberOf(rs[from].total_orders)
         IN IF dateIso = <<>> THEN OrdersByDate_Overwrite(rs, from + 1, byDate)
            ELSE IF ~IsFinite(orders) THEN OrdersByDate_Overwrite(rs, from + 1, byDate)
            ELSE OrdersByDate_Overwrite(rs, from + 1, MapSet(byDate, dateIso, orders))

\* the loop of aggregateOrdersDaily over orderRows[from..], starting from map byDate
RECURSIVE OrdersByDate(_, _, _)
OrdersByDate(rs, from, byDate) ==
    IF from > Len(rs) THEN byDate
    ELSE LET dateIso == rs[from].date_iso
             orders == NumberOf(rs[from].total_orders)
         IN IF dateIso = <<>> THEN OrdersByDate(rs, from + 1, byDate)
            ELSE IF ~IsFinite(orders) THEN OrdersByDate(rs, from + 1, byDate)
            ELSE OrdersByDate(rs, from + 1,
                     MapSet(byDate, dateIso,
                            Plus(IF dateIso \in DOMAIN byDate THEN byDate[dateIso] ELSE Num(0),
                                 orders)))

aggregateOrdersDaily(rs) ==
    LET byDate == OrdersByDate(rs, 1, EmptyMap)
        dates == SortStrings(DOMAIN byDate)
    IN [j \in 1..Len(dates) |-> [date_iso |-> dates[j], total_orders |-> byDate[dates[j]]]]

NewBucket == [countTemp |-> 0, sumTemp |-> Num(0), sumRain |-> Num(0),
              countHumidity |-> 0, sumHumidity |-> Num(0)]

\* the first loop of aggregateWeatherDaily
RECURSIVE WeatherAcc(_, _, _)
WeatherAcc(rs, from, acc) ==
    IF from > Len(rs) THEN acc
    ELSE LET r == rs[from]
             dateIso == r.date_iso
             bucket == IF dateIso \in DOMAIN acc THEN acc[dateIso] ELSE NewBucket
             b1 == IF IsFinite(r.temperature_c)
                   THEN [bucket EXCEPT !.countTemp = @ + 1,
                                       !.sumTemp = Plus(@, NumberOf(r.temperature_c))]
                   ELSE bucket
             b2 == IF IsFinite(r.rainfall_mm)
                   THEN [b1 EXCEPT !.sumRain = Plus(@, NumberOf(r.rainfall_mm))]
                   ELSE b1
             b3 == IF IsFinite(r.humidity_pct)
                   THEN [b2 EXCEPT !.countHumidity = @ + 1,
                                   !.sumHumidity = Plus(@, NumberOf(r.humidity_pct))]
                   ELSE b2
         IN IF dateIso = <<>> THEN WeatherAcc(rs, from + 1, acc)
            ELSE WeatherAcc(rs, from + 1, MapSet(acc, dateIso, b3))

\* b.sumTemp / b.countTemp and b.sumHumidity / b.countHumidity
MeanOf(sum, count) == IF count = 0 THEN NaN ELSE Quot(sum.n, sum.d * count)

\* a variant of KeepsBucket without the countTemp === 0 test
KeepsBucket_Always(b) == TRUE

\* whether the second loop of aggregateWeatherDaily keeps bucket b
KeepsBucket(b) == b.countTemp # 0

aggregateWeatherDaily(rs) ==
    LET acc == WeatherAcc(rs, 1, EmptyMap)
        kept == {dateIso \in DOMAIN acc : KeepsBucket(acc[dateIso])}
    IN [dateIso \in kept |->
           LET b == acc[dateIso]
           IN [date_iso |-> dateIso,
               temperature_c |-> MeanOf(b.sumTemp, b.countTemp),
               rainfall_mm |-> b.sumRain,
               humidity_pct |-> IF b.countHumidity # 0
                                THEN MeanOf(b.sumHumidity, b.countHumidity)
                                ELSE Null]]

NotFound == [ok |-> FALSE]

\* a variant of NearestFrom that looks at the next day before the previous day
RECURSIVE NearestFrom_NextFirst(_, _, _, _)
NearestFrom_NextFirst(dateIso, byDate, maxGapDays, offset) ==
    IF offset > maxGapDays THEN NotFound
    ELSE LET prev == addDays(dateIso, -offset)
             next == addDays(dateIso, offset)
         IN IF next \in DOMAIN byDate
            THEN [ok |-> TRUE, weather |-> byDate[next], imputed |-> TRUE]
            ELSE IF prev \in DOMAIN byDate
            THEN [ok |-> TRUE, weather |-> byDate[prev], imputed |-> TRUE]
            ELSE NearestFrom_NextFirst(dateIso, byDate, maxGapDays, offset + 1)

\* a variant of NearestFrom whose loop runs while offset < maxGapDays
RECURSIVE NearestFrom_ShortReach(_, _, _, _)
NearestFrom_ShortReach(dateIso, byDate, maxGapDays, offset) ==
    IF offset >= maxGapDays THEN NotFound
    ELSE LET prev == addDays(dateIso, -offset)
             next == addDays(dateIso, offset)
         IN IF prev \in DOMAIN byDate
            THEN [ok |-> TRUE, weather |-> byDate[prev], imputed |-> TRUE]
            ELSE IF next \in DOMAIN byDate
            THEN [ok |-> TRUE, weather |-> byDate[next], imputed |-> TRUE]
            ELSE NearestFrom_ShortReach(dateIso, byDate, maxGapDays, offset + 1)

\* a variant of NearestFrom that stops at the first offset without a match
NearestFrom_OneDayOnly(dateIso, byDate, maxGapDays, offset) ==
    IF offset > maxGapDays THEN NotFound
    ELSE LET prev == addDays(dateIso, -offset)
             next == addDays(dateIso, offset)
         IN IF prev \in DOMAIN byDate
            THEN [ok |-> TRUE, weather |-> byDate[prev], imputed |-> TRUE]
            ELSE IF next \in DOMAIN byDate
            THEN [ok |-> TRUE, weather |-> byDate[next], imputed |-> TRUE]
            ELSE NotFound

\* the for loop of findNearestWeather from the given offset
RECURSIVE NearestFrom(_, _, _, _)
NearestFrom(dateIso, byDate, maxGapDays, offset) ==
    IF offset > maxGapDays THEN NotFound
    ELSE LET prev == addDays(dateIso, -offset)
             next == addDays(dateIso, offset)
         IN IF prev \in DOMAIN byDate
            THEN [ok |-> TRUE, weather |-> byDate[prev], imputed |-> TRUE]
            ELSE IF next \in DOMAIN byDate
            THEN [ok |-> TRUE, weather |-> byDate[next], imputed |-> TRUE]
            ELSE NearestFrom(dateIso, byDate, maxGapDays, offset + 1)

findNearestWeather(dateIso, byDate, maxGapDays) ==
    IF dateIso \in DOMAIN byDate
    THEN [ok |-> TRUE, weather |-> byDate[dateIso], imputed |-> FALSE]
    ELSE NearestFrom(dateIso, byDate, maxGapDays, 1)

\* default of options.maxGapDays
DefaultMaxGapDays == 3

\* Number.isFinite(options.maxGapDays) ? options.maxGapDays : 3
maxGapDays == IF IsFinite(optMaxGapDays) THEN optMaxGapDays.n ELSE DefaultMaxGapDays

\* a variant of MergedRow that takes date_iso from the weather record
MergedRow_WeatherDate(o, nearest) ==
    [date_iso |-> nearest.weather.date_iso,
     total_orders |-> o.total_orders,
     temperature_c |-> nearest.weather.temperature_c,
     rainfall_mm |-> nearest.weather.rainfall_mm,
     humidity_pct |-> nearest.weather.humidity_pct,
     imputed_weather |-> nearest.imputed]

\* the row pushed to merged
MergedRow(o, nearest) ==
    [date_iso |-> o.date_iso,
     total_orders |-> o.total_orders,
     temperature_c |-> nearest.weather.temperature_c,
     rainfall_mm |-> nearest.weather.rainfall_mm,
     humidity_pct |-> nearest.weather.humidity_pct,
     imputed_weather |-> nearest.imputed]

\* `Weather could not be imputed for ${dateIso} within ${maxGapDays} days. Dropping row.`
DropWarning(dateIso, gap) == [text |-> "Weather could not be imputed", date |-> dateIso, days |-> gap]

\* merged.sort((a, b) => a.date_iso < b.date_iso ? -1 : a.date_iso > b.date_iso ? 1 : 0):
\* a stable insertion of each row after the rows that are not greater
RECURSIVE InsertRow(_, _)
InsertRow(sorted, r) ==
    IF sorted = <<>> THEN <<r>>
    ELSE IF StrLess(r.date_iso, sorted[Len(sorted)].date_iso)
         THEN InsertRow(SubSeq(sorted, 1, Len(sorted) - 1), r) \o <<sorted[Len(sorted)]>>
         ELSE sorted \o <<r>>

RECURSIVE SortByDate(_)
SortByDate(rs) ==
    IF rs = <<>> THEN <<>>
    ELSE InsertRow(SortByDate(SubSeq(rs, 1, Len(rs) - 1)), rs[Len(rs)])

\* a variant of NoRows without the merged.length === 0 test
NoRows_Never(rs) == FALSE

\* whether mergeOrdersWithWeather returns the failure
NoRows(rs) == Len(rs) = 0

MergeNoRows == [ok |-> FALSE, error |-> [code |-> "MERGE_NO_ROWS"]]

-----------------------------------------------------------------------------
(* Inputs of the merge *)

\* days since 0000-03-01 of an ISO date, by the civil-calendar formula
DayNumber(dateIso) ==
    LET y == DigitsToNum(SubSeq(dateIso, 1, 4))
        m == DigitsToNum(SubSeq(dateIso, 6, 7))
        d == DigitsToNum(SubSeq(dateIso, 9, 10))
        yy == IF m <= 2 THEN y - 1 ELSE y
        mm == IF m <= 2 THEN m + 9 ELSE m - 3
    IN 365 * yy + (yy \div 4) - (yy \div 100) + (yy \div 400) + ((153 * mm + 2) \div 5) + d - 1

\* the first day of the window the inputs are drawn from: it spans 29 February
FirstDay == <<"2", "0", "2", "4", "-", "0", "2", "-", "2", "7">>

\* the days of February to April 2024 that every one of these months has
CalendarDays == {toIsoDateFromParts(2024, m, d) : m \in 2..4, d \in 1..29}

\* the j-th day of the window, FirstDay being the first
DayAt(j) == CHOOSE s \in CalendarDays : DayNumber(s) - DayNumber(FirstDay) = j - 1

DateUniverse == {DayAt(j) : j \in 1..NumDays}

\* total_orders of an order row: null (empty cell), NaN/undefined, or a count
OrderValues == {Null, NaN, Num(0), Num(1)}

\* order rows: every date with every value, and a row without date_iso
OrderRowDomain ==
    [date_iso : DateUniverse, total_orders : OrderValues]
        \cup {[date_iso |-> <<>>, total_orders |-> Num(1)]}

\* the readings of one weather row
WeatherReadings ==
    { [temperature_c |-> Null, rainfall_mm |-> Num(5), humidity_pct |-> Num(50)],
      [temperature_c |-> Num(10), rainfall_mm |-> Num(0), humidity_pct |-> Null],
      [temperature_c |-> Num(21), rainfall_mm |-> Num(2), humidity_pct |-> Num(60)] }

WeatherRowOn(dt, w) ==
    [date_iso |-> dt, temperature_c |-> w.temperature_c, rainfall_mm |-> w.rainfall_mm,
     humidity_pct |-> w.humidity_pct]

\* weather rows: every date with every reading, and a row without date_iso
WeatherRowDomain ==
    {WeatherRowOn(dt, w) : dt \in DateUniverse, w \in WeatherReadings}
        \cup {[date_iso |-> <<>>, temperature_c |-> Num(10), rainfall_mm |-> Num(0),
               humidity_pct |-> Null]}

\* options.maxGapDays: absent (the default applies) or 1
GapOptions == {NaN, Num(1)}

\* useState('Delhi'), and the q of the proxy's requests
Delhi == <<"D", "e", "l", "h", "i">>

\* useState(null) of the two files and of runProgress
NoFile == [present |-> FALSE]
NoProgress == [phase |-> "null"]
\* error: null
NoAppError == [code |-> "null", message |-> "null"]
\* a stage that has not run in this run
NotRun == [ran |-> FALSE, ok |-> FALSE, error |-> NoAppError, warnings |-> <<>>, days |-> {}]

\* the locals of onLoad before its first statement
FreshRun ==
    [ordersFileArg |-> NoFile, weatherFileArg |-> NoFile, location |-> <<>>,
     ordersText |-> NotRun, parsedOrders |-> NotRun,
     weatherText |-> NotRun, parsedWeather |-> NotRun,
     normalizedOrders |-> NotRun, bulk |-> NotRun, normalizedWeather |-> NotRun,
     uniqueDates |-> {}, batch |-> 0, bulkDays |-> {}, fetchFailures |-> {},
     mergedOutcome |-> NotRun, metrics |-> NotRun, err |-> NoAppError]

\* mergedData: [], kpis and chartData as App.jsx creates them
InitialData == [mergedData |-> [ofRun |-> 0, days |-> {}],
                kpis |-> [ofRun |-> 0, totalDays |-> 0],
                chartData |-> [ofRun |-> 0, days |-> {}]]

InitialState ==
    [rawOrders |-> [ofRun |-> 0, days |-> {}], rawWeather |-> [ofRun |-> 0, days |-> {}],
     mergedData |-> InitialData.mergedData, kpis |-> InitialData.kpis,
     chartData |-> InitialData.chartData, warnings |-> <<>>, loading |-> FALSE,
     error |-> NoAppError]

LoaderIdle ==
    /\ ordersFile = NoFile
    /\ weatherFile = NoFile
    /\ location = Delhi
    /\ autoFetchWeather = TRUE
    /\ runProgress = NoProgress
    /\ state = InitialState
    /\ lpc = "idle"
    /\ runNo = 0
    /\ run = FreshRun

NoRequest == [method |-> "none"]
NoResponse == [status |-> 0]

ProxyIdle ==
    /\ cache = [x \in {} |-> 0]
    /\ clock = 0
    /\ served = 0
    /\ hpc = "idle"
    /\ request = NoRequest
    /\ toFetch = <<>>
    /\ nextIdx = 0
    /\ runners = <<>>
    /\ bulkRows = <<>>
    /\ failures = <<>>
    /\ handed = <<>>
    /\ response = NoResponse

Stages == {"normalize", "merge", "metrics"}

RerunIdle ==
    /\ calling = "none"
    /\ results = [f \in Stages |-> <<>>]

MetricsIdle ==
    /\ mergedRows = <<>>
    /\ rainThresholdMm = NaN
    /\ kpc = "idle"
    /\ sortedRows = <<>>
    /\ temperatures = <<>>
    /\ p25 = Null
    /\ p75 = Null
    /\ metricWarnings = <<>>
    /\ movingAvg7 = <<>>
    /\ enriched = <<>>
    /\ metricsResult = [ok |-> FALSE]

CsvIdle ==
    /\ text = <<>>
    /\ sourceName = "orders"
    /\ cpc = "idle"
    /\ delimiter = ","
    /\ normalizedHeaders = <<>>
    /\ csvRows = <<>>
    /\ csvWarnings = <<>>
    /\ canonicalColumnMap = <<>>
    /\ canonicalRows = <<>>
    /\ csvIdx = 0
    /\ csvResult = [ok |-> FALSE]

NormIdle ==
    /\ rows = <<>>
    /\ onMissingDate = "error"
    /\ timezoneOffset = 0
    /\ npc = "idle"
    /\ rowIdx = 0
    /\ families = {}
    /\ normalized = <<>>
    /\ droppedMissing = 0
    /\ cursor = <<>>
    /\ missing = <<>>
    /\ normResult = [ok |-> FALSE]

MergeStart ==
    /\ mpc = "aggregateOrders"
    /\ dailyOrders = <<>>
    /\ weatherByDate = EmptyMap
    /\ mergeIdx = 0
    /\ merged = <<>>
    /\ warnings = <<>>
    /\ mergeResult = [ok |-> FALSE]

MergeInit ==
    /\ LoaderIdle
    /\ ProxyIdle
    /\ RerunIdle
    /\ MetricsIdle
    /\ CsvIdle
    /\ \E a \in 0..MaxRows : \E b \in 0..(MaxRows - a) :
          /\ orderRows \in [1..a -> OrderRowDomain]
          /\ weatherRows \in [1..b -> WeatherRowDomain]
    /\ optMaxGapDays \in GapOptions
    /\ MergeStart
    /\ NormIdle

-----------------------------------------------------------------------------
(* mergeOrdersWithWeather, step by step *)

\* const dailyOrders = aggregateOrdersDaily(orderRows)
AggregateOrders ==
    /\ mpc = "aggregateOrders"
    /\ dailyOrders' = aggregateOrdersDaily(orderRows)
    /\ mpc' = "aggregateWeather"
    /\ UNCHANGED <<orderRows, weatherRows, optMaxGapDays, weatherByDate, mergeIdx, merged,
                   warnings, mergeResult, normVars, csvVars, metricsVars, rerunVars, proxyVars, loaderVars>>

\* const weatherByDate = aggregateWeatherDaily(weatherRows)
AggregateWeather ==
    /\ mpc = "aggregateWeather"
    /\ weatherByDate' = aggregateWeatherDaily(weatherRows)
    /\ mergeIdx' = 1
    /\ mpc' = "loop"
    /\ UNCHANGED <<orderRows, weatherRows, optMaxGapDays, dailyOrders, merged, warnings,
                   mergeResult, normVars, csvVars, metricsVars, rerunVars, proxyVars, loaderVars>>

\* one iteration of the loop over dailyOrders that pushes a merged row
MergeKeep ==
    /\ mpc = "loop"
    /\ mergeIdx <= Len(dailyOrders)
    /\ LET o == dailyOrders[mergeIdx]
           nearest == findNearestWeather(o.date_iso, weatherByDate, maxGapDays)
       IN /\ nearest.ok
          /\ merged' = Append(merged, MergedRow(o, nearest))
    /\ mergeIdx' = mergeIdx + 1
    /\ UNCHANGED <<orderRows, weatherRows, optMaxGapDays, mpc, dailyOrders, weatherByDate,
                   warnings, mergeResult, normVars, csvVars, metricsVars, rerunVars, proxyVars, loaderVars>>

\* one iteration of the loop over dailyOrders that drops the date with a warning
MergeDrop ==
    /\ mpc = "loop"
    /\ mergeIdx <= Len(dailyOrders)
    /\ LET o == dailyOrders[mergeIdx]
           nearest == findNearestWeather(o.date_iso, weatherByDate, maxGapDays)
       IN /\ ~nearest.ok
          /\ warnings' = Append(warnings, DropWarning(o.date_iso, maxGapDays))
    /\ mergeIdx' = mergeIdx + 1
    /\ UNCHANGED <<orderRows, weatherRows, optMaxGapDays, mpc, dailyOrders, weatherByDate,
                   merged, mergeResult, normVars, csvVars, metricsVars, rerunVars, proxyVars, loaderVars>>

\* merged.sort(...); if (merged.length === 0) return { ok: false, error }
ReturnNoRows ==
    /\ mpc = "loop"
    /\ mergeIdx > Len(dailyOrders)
    /\ NoRows(SortByDate(merged))
    /\ merged' = SortByDate(merged)
    /\ mergeResult' = MergeNoRows
    /\ mpc' = "done"
    /\ UNCHANGED <<orderRows, weatherRows, optMaxGapDays, dailyOrders, weatherByDate,
                   mergeIdx, warnings, normVars, csvVars, metricsVars, rerunVars, proxyVars, loaderVars>>

\* merged.sort(...); return { ok: true, rows: merged, warnings }
ReturnOk ==
    /\ mpc = "loop"
    /\ mergeIdx > Len(dailyOrders)
    /\ ~NoRows(SortByDate(merged))
    /\ merged' = SortByDate(merged)
    /\ mergeResult' = [ok |-> TRUE, rows |-> SortByDate(merged), warnings |-> warnings]
    /\ mpc' = "done"
    /\ UNCHANGED <<orderRows, weatherRows, optMaxGapDays, dailyOrders, weatherByDate,
                   mergeIdx, warnings, normVars, csvVars, metricsVars, rerunVars, proxyVars, loaderVars>>

MergeNext ==
    \/ AggregateOrders
    \/ AggregateWeather
    \/ MergeKeep
    \/ MergeDrop
    \/ ReturnNoRows
    \/ ReturnOk

MergeSpec == MergeInit /\ [][MergeNext]_vars

-----------------------------------------------------------------------------
(* What the merge claims speak about, stated on the inputs and the result *)

MergeDone == mpc = "done"
MergeOk == mpc = "done" /\ mergeResult.ok

\* the rows of a successful result
ResultRows == IF MergeOk THEN mergeResult.rows ELSE <<>>

RowDates(rs) == {(IF "date" \in DOMAIN rs[j] THEN rs[j].date ELSE rs[j].date_iso) : j \in DOMAIN rs}

\* the order rows of a date
OrderIdx(dateIso) == {j \in DOMAIN orderRows : orderRows[j].date_iso = dateIso}

\* the sum of the finite total_orders of the order rows with index in J
RECURSIVE SumCounts(_)
SumCounts(J) ==
    IF J = {} THEN 0
    ELSE LET j == CHOOSE x \in J : TRUE
             v == orderRows[j].total_orders
         IN (IF v.k = "num" THEN v.n ELSE 0) + SumCounts(J \ {j})

\* the gap bound in force
GapBound == IF optMaxGapDays.k = "num" THEN optMaxGapDays.n ELSE 3

\* calendar days between two dates
Distance(a, b) == Abs(DayNumber(a) - DayNumber(b))

\* the dates of the weather map within the gap bound of a date
WeatherNear(dateIso) ==
    {w \in DOMAIN weatherByDate : Distance(w, dateIso) <= GapBound}

\* the weather date a row of date dateIso must take its values from: the date
\* itself, else the nearest one, the earlier one of two at the same distance
SourceOf(dateIso) ==
    LET k == CHOOSE x \in 0..GapBound :
                 /\ \E w \in WeatherNear(dateIso) : Distance(w, dateIso) = x
                 /\ \A w \in WeatherNear(dateIso) : Distance(w, dateIso) >= x
        at == {w \in WeatherNear(dateIso) : Distance(w, dateIso) = k}
    IN CHOOSE w \in at : \A v \in at : DayNumber(w) <= DayNumber(v)

\* the dates that appear in the weather input
WeatherInputDates == {weatherRows[j].date_iso : j \in DOMAIN weatherRows}

\* C1 (as stated): every output date is the date of an input order row whose
\* order rows sum to a strictly positive total. Stated on the inputs whose
\* every total_orders is a written count, so that a zero is a count of zero
C1_AsStated ==
    (\A i \in DOMAIN orderRows : orderRows[i].total_orders.k = "num") =>
        \A j \in DOMAIN ResultRows :
            /\ OrderIdx(ResultRows[j].date_iso) # {}
            /\ SumCounts(OrderIdx(ResultRows[j].date_iso)) > 0

\* C1 (amended): every output date is the date of an input order row, the sum of
\* the order rows of that date is non-negative (a zero sum is kept) and is the
\* total the row carries; a date found only in the weather input gives no row
C1_AnchorInvariant ==
    \A j \in DOMAIN ResultRows :
        /\ OrderIdx(ResultRows[j].date_iso) # {}
        /\ SumCounts(OrderIdx(ResultRows[j].date_iso)) >= 0
        /\ ResultRows[j].total_orders.n >= 0
        /\ ~(ResultRows[j].date_iso \in WeatherInputDates
             /\ OrderIdx(ResultRows[j].date_iso) = {})

\* a successful merge that keeps a date whose orders sum to zero, imputed from a
\* weather date that has no orders
C1_Witness ==
    /\ MergeOk
    /\ \E j \in DOMAIN ResultRows :
          /\ SumCounts(OrderIdx(ResultRows[j].date_iso)) = 0
          /\ ResultRows[j].imputed_weather
    /\ \E w \in WeatherInputDates : w # <<>> /\ OrderIdx(w) = {} /\ w \in DOMAIN weatherByDate

\* C2: the rows of a successful merge ascend strictly by date_iso, are exactly
\* the aggregated order dates that were not dropped, and each carries the sum of
\* the finite total_orders of the input rows of its date
C2_OneSortedRowPerDate ==
    MergeOk =>
        /\ \A j \in 1..(Len(ResultRows) - 1) :
              StrLess(ResultRows[j].date_iso, ResultRows[j + 1].date_iso)
        /\ RowDates(ResultRows) = RowDates(dailyOrders) \ RowDates(warnings)
        /\ Len(ResultRows) = Cardinality(RowDates(dailyOrders) \ RowDates(warnings))
        /\ \A j \in DOMAIN ResultRows :
              ResultRows[j].total_orders = Num(SumCounts(OrderIdx(ResultRows[j].date_iso)))

\* a successful merge of two order rows of one date, both counted, and one of
\* two order rows given in descending date order
C2_Witness ==
    /\ MergeOk
    /\ Len(orderRows) = 2
    /\ \/ /\ orderRows[1].date_iso = orderRows[2].date_iso
          /\ orderRows[1].total_orders = Num(1)
          /\ orderRows[2].total_orders = Num(1)
          /\ Len(ResultRows) = 1
       \/ /\ StrLess(orderRows[2].date_iso, orderRows[1].date_iso)
          /\ Len(ResultRows) = 2

WeatherValues(r) ==
    [temperature_c |-> r.temperature_c, rainfall_mm |-> r.rainfall_mm,
     humidity_pct |-> r.humidity_pct]

\* C3: a row whose date is in the weather map carries that date's values and
\* imputed_weather = false; any other row carries the values of the nearest
\* weather date within the gap, the earlier of two equally near ones, and
\* imputed_weather = true
C3_NearestDayImputation ==
    \A j \in DOMAIN ResultRows :
        LET r == ResultRows[j]
        IN /\ WeatherNear(r.date_iso) # {}
           /\ WeatherValues(r) = WeatherValues(weatherByDate[SourceOf(r.date_iso)])
           /\ r.imputed_weather = (r.date_iso \notin DOMAIN weatherByDate)
           /\ r.date_iso \notin DOMAIN weatherByDate =>
                 Distance(SourceOf(r.date_iso), r.date_iso) \in 1..GapBound

\* a row imputed while the previous and the next day both have weather, with
\* different temperatures
C3_Witness ==
    /\ MergeOk
    /\ \E j \in DOMAIN ResultRows :
          LET dt == ResultRows[j].date_iso
          IN /\ ResultRows[j].imputed_weather
             /\ addDays(dt, -1) \in DOMAIN weatherByDate
             /\ addDays(dt, 1) \in DOMAIN weatherByDate
             /\ weatherByDate[addDays(dt, -1)].temperature_c
                    # weatherByDate[addDays(dt, 1)].temperature_c

\* C4: once the loop has ended, an aggregated order date is missing from the
\* merged rows exactly when no date of the weather map lies within the gap
\* bound; the warnings are one per dropped date, ascending, each naming the date
\* and the bound, and none names a kept date
C4_DropPolicy ==
    MergeDone =>
        /\ \A dt \in RowDates(dailyOrders) :
              (dt \notin RowDates(merged)) <=> (WeatherNear(dt) = {})
        /\ RowDates(warnings) = RowDates(dailyOrders) \ RowDates(merged)
        /\ Len(warnings) = Cardinality(RowDates(warnings))
        /\ \A j \in 1..(Len(warnings) - 1) : StrLess(warnings[j].date, warnings[j + 1].date)
        /\ \A j \in DOMAIN warnings : warnings[j] = DropWarning(warnings[j].date, GapBound)
        /\ MergeOk => mergeResult.warnings = warnings

\* a successful merge under the default bound that dropped one date and kept another
C4_Witness ==
    /\ MergeOk
    /\ optMaxGapDays = NaN
    /\ Len(warnings) = 1
    /\ Len(ResultRows) = 1

-----------------------------------------------------------------------------
(* The scenario of a stretch of days without weather inside a range of orders *)

\* 14 consecutive order days of 100 orders each; weather on each of them but a
\* stretch of 5 consecutive interior days or, for comparison, on none of them;
\* the gap bound 3 (given or by default) or, for comparison, 2
ScenarioInit ==
    /\ LoaderIdle
    /\ ProxyIdle
    /\ RerunIdle
    /\ MetricsIdle
    /\ CsvIdle
    /\ orderRows = [j \in 1..14 |-> [date_iso |-> DayAt(j), total_orders |-> Num(100)]]
    /\ \E stretch \in {f..(f + 4) : f \in 2..9} \cup {1..14} :
          LET days == (1..14) \ stretch
              nth(k) == CHOOSE j \in days : Cardinality({x \in days : x < j}) = k - 1
          IN weatherRows =
                 [k \in 1..Cardinality(days) |->
                     [date_iso |-> DayAt(nth(k)), temperature_c |-> Num(10 + nth(k)),
                      rainfall_mm |-> Num(0), humidity_pct |-> Num(50)]]
    /\ optMaxGapDays \in {NaN, Num(3), Num(2)}
    /\ MergeStart
    /\ NormIdle

ScenarioSpec == ScenarioInit /\ [][MergeNext]_vars

\* the order dates that have no weather row
DatesWithoutWeather == RowDates(orderRows) \ WeatherInputDates

-----------------------------------------------------------------------------

\* C6: the merge fails with MERGE_NO_ROWS exactly when no aggregated order date
\* has weather within the gap (none at all included); a success has at least
\* one row and a failure has no rows field
C6_MergeNoRows ==
    MergeDone =>
        /\ (mergeResult = MergeNoRows) <=>
              (\A j \in DOMAIN dailyOrders : WeatherNear(dailyOrders[j].date_iso) = {})
        /\ mergeResult.ok => Len(mergeResult.rows) > 0
        /\ ~mergeResult.ok => mergeResult = MergeNoRows /\ "rows" \notin DOMAIN mergeResult

\* the merge failed after every one of its order dates was dropped
C6_Witness ==
    /\ MergeDone
    /\ ~mergeResult.ok
    /\ Len(dailyOrders) >= 1
    /\ Len(warnings) = Len(dailyOrders)

\* C7 (as stated): an order row whose total_orders is null or not finite is
\* skipped: a date all of whose order rows are such has no daily aggregate and
\* no merged row
C7_AsStated ==
    mpc # "aggregateOrders" =>
        \A dt \in DateUniverse :
            (OrderIdx(dt) # {} /\ \A j \in OrderIdx(dt) : ~IsFinite(orderRows[j].total_orders))
                => (dt \notin RowDates(dailyOrders) /\ dt \notin RowDates(ResultRows))

\* the weather rows of a date that have a finite temperature
TempIdx(dateIso) ==
    {j \in DOMAIN weatherRows :
        weatherRows[j].date_iso = dateIso /\ weatherRows[j].temperature_c.k = "num"}

RECURSIVE SumTemps(_)
SumTemps(J) ==
    IF J = {} THEN 0
    ELSE LET j == CHOOSE x \in J : TRUE
         IN weatherRows[j].temperature_c.n + SumTemps(J \ {j})

\* v is the mean of the finite temperature readings of the date
IsMeanTemp(v, dateIso) ==
    /\ v.k = "num"
    /\ TempIdx(dateIso) # {}
    /\ v.n * Cardinality(TempIdx(dateIso)) = SumTemps(TempIdx(dateIso)) * v.d

\* C8: the weather map holds exactly the dates with a finite temperature
\* reading, each with the mean of them, so every row of a successful merge has
\* a finite temperature_c, the mean of the finite readings of its source date
C8_NoTemperatureNoWeather ==
    mpc \in {"loop", "done"} =>
        /\ DOMAIN weatherByDate = {dt \in WeatherInputDates : dt # <<>> /\ TempIdx(dt) # {}}
        /\ \A dt \in DOMAIN weatherByDate : IsMeanTemp(weatherByDate[dt].temperature_c, dt)
        /\ \A j \in DOMAIN ResultRows :
              /\ IsFinite(ResultRows[j].temperature_c)
              /\ IsMeanTemp(ResultRows[j].temperature_c, SourceOf(ResultRows[j].date_iso))

\* a row imputed although its own date has a weather row, one without temperature
C8_Witness ==
    /\ MergeOk
    /\ \E j \in DOMAIN ResultRows :
          /\ ResultRows[j].imputed_weather
          /\ ResultRows[j].date_iso \in WeatherInputDates

-----------------------------------------------------------------------------
(* dateNormalizer (src/unnamed/part_001) *)

\* String.prototype.trim
RECURSIVE TrimStart(_)
TrimStart(s) == IF s # <<>> /\ Head(s) = " " THEN TrimStart(Tail(s)) ELSE s

RECURSIVE TrimEnd(_)
TrimEnd(s) ==
    IF s # <<>> /\ s[Len(s)] = " " THEN TrimEnd(SubSeq(s, 1, Len(s) - 1)) ELSE s

Trim(s) == TrimEnd(TrimStart(s))

AllDigits(s) == \A j \in DOMAIN s : IsDigit(s[j])

\* isValidYmd(year, month, day): the Date built from the parts gives them back
isValidYmd(year, month, day) ==
    LET dt == NewDate(year, month - 1, day)
    IN dt.year = year /\ dt.month = month - 1 /\ dt.day = day

\* a parser's null
NoParse == [family |-> "none", date_iso |-> <<>>]
Invalid == [family |-> "invalid", date_iso |-> <<>>]
Ambiguous == [family |-> "ambiguous", date_iso |-> <<>>]

\* /^\d{4}-\d{2}-\d{2}$/
MatchesIsoDate(raw) ==
    /\ Len(raw) = 10
    /\ raw[5] = "-" /\ raw[8] = "-"
    /\ AllDigits(SubSeq(raw, 1, 4)) /\ AllDigits(SubSeq(raw, 6, 7))
    /\ AllDigits(SubSeq(raw, 9, 10))

parseIsoDate(raw) ==
    IF ~MatchesIsoDate(raw) THEN NoParse
    ELSE LET y == DigitsToNum(SubSeq(raw, 1, 4))
             mo == DigitsToNum(SubSeq(raw, 6, 7))
             dd == DigitsToNum(SubSeq(raw, 9, 10))
         IN IF ~isValidYmd(y, mo, dd) THEN NoParse
            ELSE [family |-> "iso", date_iso |-> toIsoDateFromParts(y, mo, dd)]

\* /^(\d{2})\/(\d{2})\/(\d{4})$/
MatchesSlashDate(raw) ==
    /\ Len(raw) = 10
    /\ raw[3] = "/" /\ raw[6] = "/"
    /\ AllDigits(SubSeq(raw, 1, 2)) /\ AllDigits(SubSeq(raw, 4, 5))
    /\ AllDigits(SubSeq(raw, 7, 10))

\* a variant of parseSlashDate that reads a value as day-first whenever the
\* second token can be a month
parseSlashDate_GuessDmy(raw) ==
    IF ~MatchesSlashDate(raw) THEN NoParse
    ELSE LET a == DigitsToNum(SubSeq(raw, 1, 2))
             b == DigitsToNum(SubSeq(raw, 4, 5))
             year == DigitsToNum(SubSeq(raw, 7, 10))
             isDmy == b <= 12
             isMdy == b > 12 /\ a <= 12
             day == IF isDmy THEN a ELSE b
             month == IF isDmy THEN b ELSE a
         IN IF a < 1 \/ a > 31 \/ b < 1 \/ b > 31 THEN Invalid
            ELSE IF ~isDmy /\ ~isMdy THEN Ambiguous
            ELSE IF ~isValidYmd(year, month, day) THEN Invalid
            ELSE [family |-> IF isDmy THEN "dmy" ELSE "mdy",
                  date_iso |-> toIsoDateFromParts(year, month, day)]

parseSlashDate(raw) ==
    IF ~MatchesSlashDate(raw) THEN NoParse
    ELSE LET a == DigitsToNum(SubSeq(raw, 1, 2))
             b == DigitsToNum(SubSeq(raw, 4, 5))
             year == DigitsToNum(SubSeq(raw, 7, 10))
             isDmy == a > 12 /\ b <= 12
             isMdy == b > 12 /\ a <= 12
             day == IF isDmy THEN a ELSE b
             month == IF isDmy THEN b ELSE a
         IN IF a < 1 \/ a > 31 \/ b < 1 \/ b > 31 THEN Invalid
            ELSE IF ~isDmy /\ ~isMdy THEN Ambiguous
            ELSE IF ~isValidYmd(year, month, day) THEN Invalid
            ELSE [family |-> IF isDmy THEN "dmy" ELSE "mdy",
                  date_iso |-> toIsoDateFromParts(year, month, day)]

(* Letters, for the textual month-name dates *)

UpperLetters == <<"A", "B", "C", "D", "E", "F", "G", "H", "I", "J", "K", "L", "M",
                  "N", "O", "P", "Q", "R", "S", "T", "U", "V", "W", "X", "Y", "Z">>
LowerLetters == <<"a", "b", "c", "d", "e", "f", "g", "h", "i", "j", "k", "l", "m",
                  "n", "o", "p", "q", "r", "s", "t", "u", "v", "w", "x", "y", "z">>

IsUpper(c) == \E j \in 1..26 : UpperLetters[j] = c

\* String.prototype.toLowerCase, character by character
LowerChar(c) == IF IsUpper(c) THEN LowerLetters[CHOOSE j \in 1..26 : UpperLetters[j] = c] ELSE c
toLowerCase(s) == [j \in DOMAIN s |-> LowerChar(s[j])]

Letters == {UpperLetters[j] : j \in 1..26} \cup {LowerLetters[j] : j \in 1..26}

\* the length of the longest prefix of s made of characters of the class
RECURSIVE RunOf(_, _)
RunOf(s, class) ==
    IF s # <<>> /\ Head(s) \in class THEN 1 + RunOf(Tail(s), class) ELSE 0

\* s without its first k characters
Drop(s, k) == SubSeq(s, k + 1, Len(s))

\* const monthMap = { jan: 1, january: 1, ... }; 0 stands for undefined
monthMap(t) ==
    CASE t = <<"j", "a", "n">> -> 1
      [] t = <<"j", "a", "n", "u", "a", "r", "y">> -> 1
      [] t = <<"f", "e", "b">> -> 2
      [] t = <<"f", "e", "b", "r", "u", "a", "r", "y">> -> 2
      [] t = <<"m", "a", "r">> -> 3
      [] t = <<"m", "a", "r", "c", "h">> -> 3
      [] t = <<"a", "p", "r">> -> 4
      [] t = <<"a", "p", "r", "i", "l">> -> 4
      [] t = <<"m", "a", "y">> -> 5
      [] t = <<"j", "u", "n">> -> 6
      [] t = <<"j", "u", "n", "e">> -> 6
      [] t = <<"j", "u", "l">> -> 7
      [] t = <<"j", "u", "l", "y">> -> 7
      [] t = <<"a", "u", "g">> -> 8
      [] t = <<"a", "u", "g", "u", "s", "t">> -> 8
      [] t = <<"s", "e", "p">> -> 9
      [] t = <<"s", "e", "p", "t">> -> 9
      [] t = <<"s", "e", "p", "t", "e", "m", "b", "e", "r">> -> 9
      [] t = <<"o", "c", "t">> -> 10
      [] t = <<"o", "c", "t", "o", "b", "e", "r">> -> 10
      [] t = <<"n", "o", "v">> -> 11
      [] t = <<"n", "o", "v", "e", "m", "b", "e", "r">> -> 11
      [] t = <<"d", "e", "c">> -> 12
      [] t = <<"d", "e", "c", "e", "m", "b", "e", "r">> -> 12
      [] OTHER -> 0

\* the position of the first ch in s, 0 when there is none
RECURSIVE IndexOf(_, _)
IndexOf(s, ch) ==
    IF s = <<>> THEN 0
    ELSE IF Head(s) = ch THEN 1
    ELSE LET k == IndexOf(Tail(s), ch) IN IF k = 0 THEN 0 ELSE k + 1

\* s.includes(',') ? s.split(',').slice(1).join(',').trim() : s
afterFirstComma(s) ==
    IF IndexOf(s, ",") = 0 THEN s ELSE Trim(Drop(s, IndexOf(s, ",")))

\* /^([A-Za-z]+)\s+(\d{1,2})(?:,)?\s+(\d{4})$/.exec(candidate): the groups, or ok = FALSE
MatchMonthName(candidate) ==
    LET n1 == RunOf(candidate, Letters)
        r1 == Drop(candidate, n1)
        w1 == RunOf(r1, {" "})
        r2 == Drop(r1, w1)
        n2 == RunOf(r2, DigitChars)
        r3 == Drop(r2, n2)
        c3 == IF r3 # <<>> /\ Head(r3) = "," THEN 1 ELSE 0
        r4 == Drop(r3, c3)
        w2 == RunOf(r4, {" "})
        r5 == Drop(r4, w2)
    IN IF n1 >= 1 /\ w1 >= 1 /\ n2 \in {1, 2} /\ w2 >= 1 /\ Len(r5) = 4 /\ AllDigits(r5)
       THEN [ok |-> TRUE, m1 |-> SubSeq(candidate, 1, n1), m2 |-> SubSeq(r2, 1, n2), m3 |-> r5]
       ELSE [ok |-> FALSE, m1 |-> <<>>, m2 |-> <<>>, m3 |-> <<>>]

\* parseMonthNameDate(raw)
parseMonthNameDate(raw) ==
    LET s == Trim(raw)
        candidate == IF afterFirstComma(s) # <<>> THEN afterFirstComma(s) ELSE s
        m == MatchMonthName(candidate)
    IN IF s = <<>> THEN NoParse
       ELSE IF ~m.ok THEN NoParse
       ELSE IF monthMap(toLowerCase(m.m1)) = 0 THEN NoParse
       ELSE LET month == monthMap(toLowerCase(m.m1))
                day == DigitsToNum(m.m2)
                year == DigitsToNum(m.m3)
            IN IF ~isValidYmd(year, month, day) THEN Invalid
               ELSE [family |-> "month_name", date_iso |-> toIsoDateFromParts(year, month, day)]

\* /^\d{4}-\d{2}-\d{2}T/.test(raw)
looksLikeIsoTs(raw) ==
    /\ Len(raw) >= 11
    /\ MatchesIsoDate(SubSeq(raw, 1, 10))
    /\ raw[11] = "T"

\* the zone designator of a date-time string: none (local time), Z, or +HH:MM / -HH:MM
ZoneOf(z) ==
    IF z = <<>> THEN [ok |-> TRUE, given |-> FALSE, minutes |-> 0]
    ELSE IF z = <<"Z">> THEN [ok |-> TRUE, given |-> TRUE, minutes |-> 0]
    ELSE IF /\ Len(z) = 6 /\ z[1] \in {"+", "-"} /\ z[4] = ":"
            /\ AllDigits(SubSeq(z, 2, 3)) /\ AllDigits(SubSeq(z, 5, 6))
            /\ DigitsToNum(SubSeq(z, 2, 3)) <= 23 /\ DigitsToNum(SubSeq(z, 5, 6)) <= 59
         THEN [ok |-> TRUE, given |-> TRUE,
               minutes |-> (IF z[1] = "-" THEN -1 ELSE 1)
                              * (60 * DigitsToNum(SubSeq(z, 2, 3)) + DigitsToNum(SubSeq(z, 5, 6)))]
    ELSE [ok |-> FALSE, given |-> FALSE, minutes |-> 0]

\* new Date(raw) for raw = YYYY-MM-DDTHH:mm[:ss] followed by a zone designator: the
\* written day, the minute of that day and the zone; ok = FALSE is an Invalid Date.
\* A date-time without a designator is local time. A day number that its month
\* does not have is rejected by some engines and carried over by others; the
\* values drawn below name real calendar days.
DateParse(raw) ==
    LET y == DigitsToNum(SubSeq(raw, 1, 4))
        mo == DigitsToNum(SubSeq(raw, 6, 7))
        dd == DigitsToNum(SubSeq(raw, 9, 10))
        t == Drop(raw, 11)
        hh == DigitsToNum(SubSeq(t, 1, 2))
        mi == DigitsToNum(SubSeq(t, 4, 5))
        hasSeconds == Len(t) >= 8 /\ t[6] = ":" /\ AllDigits(SubSeq(t, 7, 8))
        zone == ZoneOf(Drop(t, IF hasSeconds THEN 8 ELSE 5))
        wellFormed ==
            /\ Len(t) >= 5 /\ AllDigits(SubSeq(t, 1, 2)) /\ t[3] = ":" /\ AllDigits(SubSeq(t, 4, 5))
            /\ hasSeconds => DigitsToNum(SubSeq(t, 7, 8)) <= 59
            /\ zone.ok
            /\ mo \in 1..12 /\ dd >= 1 /\ dd <= DaysInMonth(y, mo - 1)
            /\ mi <= 59 /\ (hh <= 23 \/ (hh = 24 /\ mi = 0))
    IN IF wellFormed
       THEN [ok |-> TRUE, year |-> y, month |-> mo, day |-> dd, minute |-> 60 * hh + mi,
             zoned |-> zone.given, zoneMinutes |-> zone.minutes]
       ELSE [ok |-> FALSE, year |-> 0, month |-> 0, day |-> 0, minute |-> 0,
             zoned |-> FALSE, zoneMinutes |-> 0]

\* a variant of LocalDayOf that reads the calendar day in UTC (getUTCDate)
LocalDayOf_Utc(dt, tz) ==
    LET utcMinute == dt.minute - (IF dt.zoned THEN dt.zoneMinutes ELSE tz)
        shift == IF utcMinute >= 0 THEN utcMinute \div 1440
                 ELSE -((1439 - utcMinute) \div 1440)
    IN NormalizeDate(dt.year, dt.month - 1, dt.day + shift)

\* dt.getFullYear(), dt.getMonth(), dt.getDate(): the calendar day of the instant
\* in the timezone of the environment, tz minutes east of UTC
LocalDayOf(dt, tz) ==
    LET utcMinute == dt.minute - (IF dt.zoned THEN dt.zoneMinutes ELSE tz)
        localMinute == utcMinute + tz
        \* whole days between the written day and the local day (floor)
        shift == IF localMinute >= 0 THEN localMinute \div 1440
                 ELSE -((1439 - localMinute) \div 1440)
    IN NormalizeDate(dt.year, dt.month - 1, dt.day + shift)

\* parseIsoTimestamp(raw)
parseIsoTimestamp(raw) ==
    IF ~looksLikeIsoTs(raw) THEN NoParse
    ELSE LET dt == DateParse(raw)
         IN IF ~dt.ok THEN NoParse
            ELSE LET local == LocalDayOf(dt, timezoneOffset)
                 IN [family |-> "iso",
                     date_iso |-> toIsoDateFromParts(local.year, local.month + 1, local.day)]

\* parseIsoDate(s) ?? parseIsoTimestamp(s) ?? parseMonthNameDate(s) ?? parseSlashDate(s)
parseDateValue(s) ==
    IF parseIsoDate(s) # NoParse THEN parseIsoDate(s)
    ELSE IF parseIsoTimestamp(s) # NoParse THEN parseIsoTimestamp(s)
    ELSE IF parseMonthNameDate(s) # NoParse THEN parseMonthNameDate(s)
    ELSE parseSlashDate(s)

\* raw === null || raw === undefined; the null value of a cell
NullCell == <<"null">>

\* a variant of IsMissingDate that takes only null and undefined for missing
IsMissingDate_NullOnly(raw) == raw = NullCell

\* raw === null || raw === undefined || String(raw).trim().length === 0
IsMissingDate(raw) == raw = NullCell \/ Len(Trim(raw)) = 0

\* addDaysIso(dateIso, deltaDays)
addDaysIso(dateIso, deltaDays) ==
    CHOOSE iso \in
        {toIsoDateFromParts(moved.year, moved.month + 1, moved.day) :
            moved \in {NormalizeDate(dt.year, dt.month, dt.day + deltaDays) :
                          dt \in {NewDate(DigitsToNum(SubSeq(dateIso, 1, 4)),
                                          DigitsToNum(SubSeq(dateIso, 6, 7)) - 1,
                                          DigitsToNum(SubSeq(dateIso, 9, 10)))}}} : TRUE

\* minimum number of distinct dates below which the warning is given
MinDistinctDates == 7
\* number of missing dates quoted in the warning
PreviewLength == 5

\* new Set(normalized.map((r) => r.date_iso))
DateSetOf(normRows) == {normRows[j].date_iso : j \in DOMAIN normRows}

\* a variant of NormWarnings that quotes every missing date
NormWarnings_WholePreview(dropped, dateSet, missingDays) ==
    (IF dropped > 0 THEN <<[text |-> "Dropped rows due to missing dates", count |-> dropped]>>
     ELSE <<>>)
    \o (IF Cardinality(dateSet) < MinDistinctDates
        THEN <<[text |-> "Only few distinct dates found", count |-> Cardinality(dateSet)]>>
        ELSE <<>>)
    \o (IF Len(missingDays) > 0
        THEN <<[text |-> "Detected missing dates", count |-> Len(missingDays),
                preview |-> missingDays]>>
        ELSE <<>>)

\* the warnings of a successful normalization, in the order they are pushed
NormWarnings(dropped, dateSet, missingDays) ==
    (IF dropped > 0 THEN <<[text |-> "Dropped rows due to missing dates", count |-> dropped]>>
     ELSE <<>>)
    \o (IF Cardinality(dateSet) < MinDistinctDates
        THEN <<[text |-> "Only few distinct dates found", count |-> Cardinality(dateSet)]>>
        ELSE <<>>)
    \o (IF Len(missingDays) > 0
        THEN <<[text |-> "Detected missing dates", count |-> Len(missingDays),
                preview |-> SubSeq(missingDays, 1, IF Len(missingDays) < PreviewLength
                                                   THEN Len(missingDays) ELSE PreviewLength)]>>
        ELSE <<>>)

\* makeError(code, message, { rowIndex, value })
RowError(code, i, value) == [code |-> code, rowIndex |-> i - 1, value |-> value]

-----------------------------------------------------------------------------
(* Inputs of the normalization *)

SlashStr(a, b, y) == pad2(a) \o <<"/">> \o pad2(b) \o <<"/">> \o PadStart(NumToStr(y), 4)

\* the leading tokens of the slash-form values
SlashTokens == {0, 2, 12, 13, 31, 32}

SlashValues ==
    {SlashStr(a, b, 2024) : a \in SlashTokens, b \in SlashTokens}
        \cup {SlashStr(29, 2, 2023), SlashStr(29, 2, 2024), SlashStr(2, 29, 2023),
              SlashStr(13, 14, 2024), SlashStr(13, 2, 24)}

OtherValues ==
    { NullCell,
      <<>>,
      <<" ", " ">>,
      <<" ">> \o SlashStr(13, 2, 2024) \o <<" ">>,
      toIsoDateFromParts(2024, 2, 13),
      toIsoDateFromParts(2024, 2, 30),
      <<"1", "/", "2", "/", "2", "0", "2", "4">> }

RawValues == SlashValues \cup OtherValues

MergeIdle ==
    /\ orderRows = <<>>
    /\ weatherRows = <<>>
    /\ optMaxGapDays = NaN
    /\ mpc = "idle"
    /\ dailyOrders = <<>>
    /\ weatherByDate = EmptyMap
    /\ mergeIdx = 0
    /\ merged = <<>>
    /\ warnings = <<>>
    /\ mergeResult = [ok |-> FALSE]

NormInit ==
    /\ LoaderIdle
    /\ ProxyIdle
    /\ RerunIdle
    /\ MetricsIdle
    /\ CsvIdle
    /\ \E n \in 1..MaxBatch : rows \in [1..n -> [date : RawValues]]
    /\ onMissingDate \in {"error", "drop"}
    /\ timezoneOffset = 0
    /\ npc = "loop"
    /\ rowIdx = 1
    /\ families = {}
    /\ normalized = <<>>
    /\ droppedMissing = 0
    /\ cursor = <<>>
    /\ missing = <<>>
    /\ normResult = [ok |-> FALSE]
    /\ MergeIdle

-----------------------------------------------------------------------------
(* normalizeDatesInRows, row by row *)

InLoop == npc = "loop" /\ rowIdx <= Len(rows)

\* const s = String(raw).trim()
TrimmedAt(i) == Trim(rows[i].date)

NormFail(error) ==
    /\ normResult' = [ok |-> FALSE, error |-> error]
    /\ npc' = "done"
    /\ UNCHANGED <<rows, onMissingDate, timezoneOffset, rowIdx, families, normalized, droppedMissing, cursor,
                   missing, mergeVars, csvVars, metricsVars, rerunVars, proxyVars, loaderVars>>

\* a missing date under onMissingDate === 'drop': droppedMissing += 1; continue
RowMissingDropped ==
    /\ InLoop
    /\ IsMissingDate(rows[rowIdx].date)
    /\ onMissingDate = "drop"
    /\ droppedMissing' = droppedMissing + 1
    /\ rowIdx' = rowIdx + 1
    /\ UNCHANGED <<rows, onMissingDate, timezoneOffset, npc, families, normalized, cursor, missing, normResult,
                   mergeVars, csvVars, metricsVars, rerunVars, proxyVars, loaderVars>>

\* a missing date otherwise: return DATE_INVALID with the row index
RowMissingFails ==
    /\ InLoop
    /\ IsMissingDate(rows[rowIdx].date)
    /\ onMissingDate # "drop"
    /\ NormFail([code |-> "DATE_INVALID", rowIndex |-> rowIdx - 1])

\* if (!parsed) return DATE_INVALID (unrecognized format)
RowUnrecognized ==
    /\ InLoop
    /\ ~IsMissingDate(rows[rowIdx].date)
    /\ parseDateValue(TrimmedAt(rowIdx)) = NoParse
    /\ NormFail(RowError("DATE_INVALID", rowIdx, TrimmedAt(rowIdx)))

\* if (parsed.family === 'ambiguous') return DATE_AMBIGUOUS
RowAmbiguous ==
    /\ InLoop
    /\ ~IsMissingDate(rows[rowIdx].date)
    /\ parseDateValue(TrimmedAt(rowIdx)).family = "ambiguous"
    /\ NormFail(RowError("DATE_AMBIGUOUS", rowIdx, TrimmedAt(rowIdx)))

\* if (parsed.family === 'invalid') return DATE_INVALID
RowInvalid ==
    /\ InLoop
    /\ ~IsMissingDate(rows[rowIdx].date)
    /\ parseDateValue(TrimmedAt(rowIdx)).family = "invalid"
    /\ NormFail(RowError("DATE_INVALID", rowIdx, TrimmedAt(rowIdx)))

\* families.add(parsed.family); normalized.push({ ...row, date_raw: s, date_iso })
RowNormalized ==
    /\ InLoop
    /\ ~IsMissingDate(rows[rowIdx].date)
    /\ LET parsed == parseDateValue(TrimmedAt(rowIdx))
       IN /\ parsed.family \notin {"none", "ambiguous", "invalid"}
          /\ families' = families \cup {parsed.family}
          /\ normalized' = Append(normalized,
                                  [date |-> rows[rowIdx].date, date_raw |-> TrimmedAt(rowIdx),
                                   date_iso |-> parsed.date_iso])
    /\ rowIdx' = rowIdx + 1
    /\ UNCHANGED <<rows, onMissingDate, timezoneOffset, npc, droppedMissing, cursor, missing, normResult,
                   mergeVars, csvVars, metricsVars, rerunVars, proxyVars, loaderVars>>

\* a variant of effectiveFamilies that counts the two slash orders as one family
effectiveFamilies_OneSlashFamily == {IF f \in {"dmy", "mdy"} THEN "slash" ELSE f : f \in families}

\* distinctFamilies.map((f) => (f === 'iso' ? 'iso' : f))
effectiveFamilies == {IF f = "iso" THEN "iso" ELSE f : f \in families}

\* after the loop: effectiveFamilies.size > 1 returns DATE_MIXED_FORMATS
ReturnMixedFormats ==
    /\ npc = "loop"
    /\ rowIdx > Len(rows)
    /\ Cardinality(effectiveFamilies) > 1
    /\ NormFail([code |-> "DATE_MIXED_FORMATS", families |-> effectiveFamilies])

\* const sortedDates = Array.from(dateSet).sort()
sortedDates == SortStrings(DateSetOf(normalized))

\* after the loop, one family at most: the scan starts at the minimum date
BeginScan ==
    /\ npc = "loop"
    /\ rowIdx > Len(rows)
    /\ Cardinality(effectiveFamilies) <= 1
    /\ cursor' = IF Len(sortedDates) >= 2 THEN sortedDates[1] ELSE <<>>
    /\ npc' = "scan"
    /\ UNCHANGED <<rows, onMissingDate, timezoneOffset, rowIdx, families, normalized, droppedMissing, missing,
                   normResult, mergeVars, csvVars, metricsVars, rerunVars, proxyVars, loaderVars>>

\* while (cursor < max) { cursor = addDaysIso(cursor, 1); if (...) missing.push(cursor) }
ScanDay ==
    /\ npc = "scan"
    /\ \E sorted \in {sortedDates} :
          /\ Len(sorted) >= 2
          /\ \E max \in {sorted[Len(sorted)]} :
                /\ StrLess(cursor, max)
                /\ \E nxt \in {addDaysIso(cursor, 1)} :
                      /\ cursor' = nxt
                      /\ missing' = IF StrLess(nxt, max) /\ nxt \notin DateSetOf(normalized)
                                    THEN Append(missing, nxt) ELSE missing
    /\ UNCHANGED <<rows, onMissingDate, timezoneOffset, npc, rowIdx, families, normalized, droppedMissing,
                   normResult, mergeVars, csvVars, metricsVars, rerunVars, proxyVars, loaderVars>>

\* the scan is over: return { ok: true, rows: normalized, warnings }
ReturnNormalized ==
    /\ npc = "scan"
    /\ Len(sortedDates) >= 2 => ~StrLess(cursor, sortedDates[Len(sortedDates)])
    /\ normResult' = [ok |-> TRUE, rows |-> normalized,
                      warnings |-> NormWarnings(droppedMissing, DateSetOf(normalized), missing)]
    /\ npc' = "done"
    /\ UNCHANGED <<rows, onMissingDate, timezoneOffset, rowIdx, families, normalized, droppedMissing, cursor,
                   missing, mergeVars, csvVars, metricsVars, rerunVars, proxyVars, loaderVars>>

NormNext ==
    \/ RowMissingDropped
    \/ RowMissingFails
    \/ RowUnrecognized
    \/ RowAmbiguous
    \/ RowInvalid
    \/ RowNormalized
    \/ ReturnMixedFormats
    \/ BeginScan
    \/ ScanDay
    \/ ReturnNormalized

NormSpec == NormInit /\ [][NormNext]_vars

-----------------------------------------------------------------------------
(* Batches of textual and date-time values, in environments of several timezones *)

\* the local timezones of the environment, in minutes east of UTC
TimeZones == {-480, 0, 330}

TimePrefix == <<"1", "1", ":", "3", "8", " ", "P", "M", ",">>

MonthWords ==
    { <<"S", "e", "p", "t", "e", "m", "b", "e", "r">>,
      <<"S", "e", "p">>,
      <<"F", "E", "B">>,
      <<"F", "o", "o">> }

\* "[11:38 PM, ]<word> <day>[,] <year>"
MonthNameStr(timed, word, day, comma, year) ==
    (IF timed THEN TimePrefix \o <<" ">> ELSE <<>>)
        \o word \o <<" ">> \o NumToStr(day) \o (IF comma THEN <<",">> ELSE <<>>)
        \o <<" ">> \o PadStart(NumToStr(year), 4)

MonthNameValues ==
    {MonthNameStr(timed, word, day, comma, 2024) :
        timed \in BOOLEAN, word \in MonthWords, day \in {5, 10, 31}, comma \in BOOLEAN}

ZoneTexts == { <<>>, <<"Z">>, <<"+", "0", "5", ":", "3", "0">>, <<"-", "0", "8", ":", "0", "0">> }

\* "YYYY-MM-DDTHH:mm<zone>"
TimestampStr(dateIso, hh, mi, zone) ==
    dateIso \o <<"T">> \o pad2(hh) \o <<":">> \o pad2(mi) \o zone

TimestampDays == {toIsoDateFromParts(2024, 2, 13), toIsoDateFromParts(2024, 2, 29)}

TimestampValues ==
    {TimestampStr(dt, hm[1], hm[2], z) :
        dt \in TimestampDays, hm \in {<<0, 30>>, <<12, 0>>, <<23, 30>>}, z \in ZoneTexts}

\* the last half hour of the year 9999, in UTC
LastYearValues == {TimestampStr(toIsoDateFromParts(9999, 12, 31), 23, 30, <<"Z">>)}

\* one value of each kind, for the rows after the first
FollowValues ==
    { NullCell,
      toIsoDateFromParts(2024, 2, 13),
      TimestampStr(toIsoDateFromParts(2024, 2, 13), 12, 0, <<":", "0", "0", "Z">>),
      MonthNameStr(FALSE, <<"S", "e", "p">>, 10, FALSE, 2024),
      SlashStr(13, 2, 2024),
      SlashStr(2, 13, 2024),
      SlashStr(1, 2, 2024),
      SlashStr(31, 2, 2024),
      <<"f", "o", "o">> }

FamilyInit ==
    /\ LoaderIdle
    /\ ProxyIdle
    /\ RerunIdle
    /\ MetricsIdle
    /\ CsvIdle
    /\ \/ \E n \in 1..MaxBatch :
            /\ rows \in [1..n -> [date : MonthNameValues \cup TimestampValues \cup FollowValues]]
            /\ \A j \in 2..n : rows[j].date \in FollowValues
       \/ rows \in [1..1 -> [date : LastYearValues]]
    /\ onMissingDate \in {"error", "drop"}
    /\ timezoneOffset \in TimeZones
    /\ npc = "loop"
    /\ rowIdx = 1
    /\ families = {}
    /\ normalized = <<>>
    /\ droppedMissing = 0
    /\ cursor = <<>>
    /\ missing = <<>>
    /\ normResult = [ok |-> FALSE]
    /\ MergeIdle

FamilySpec == FamilyInit /\ [][NormNext]_vars

\* dates on both sides of the end of a leap February
GapDates ==
    { toIsoDateFromParts(2024, 2, 26), toIsoDateFromParts(2024, 2, 27),
      toIsoDateFromParts(2024, 2, 28), toIsoDateFromParts(2024, 2, 29),
      toIsoDateFromParts(2024, 3, 1), toIsoDateFromParts(2024, 3, 2),
      toIsoDateFromParts(2024, 3, 3), toIsoDateFromParts(2024, 3, 5) }

\* two dates on both sides of the end of a year
YearEndDates == {toIsoDateFromParts(2023, 12, 30), toIsoDateFromParts(2024, 1, 2)}

\* one row for each date of a set, the latest first
RowsOf(dates) ==
    LET sorted == SortStrings(dates)
    IN [j \in 1..Len(sorted) |-> [date |-> sorted[Len(sorted) + 1 - j]]]

\* the rows hold a set of dates, or a short batch of values of every kind
GapInit ==
    /\ LoaderIdle
    /\ ProxyIdle
    /\ RerunIdle
    /\ MetricsIdle
    /\ CsvIdle
    /\ \/ /\ \E dates \in (SUBSET GapDates) \cup {YearEndDates} :
               dates # {} /\ rows = RowsOf(dates)
          /\ onMissingDate = "error"
       \/ /\ \E n \in 1..MaxBatch : rows \in [1..n -> [date : FollowValues]]
          /\ onMissingDate \in {"error", "drop"}
    /\ timezoneOffset = 0
    /\ npc = "loop"
    /\ rowIdx = 1
    /\ families = {}
    /\ normalized = <<>>
    /\ droppedMissing = 0
    /\ cursor = <<>>
    /\ missing = <<>>
    /\ normResult = [ok |-> FALSE]
    /\ MergeIdle

\* each turn of the while loop of the scan is taken
GapSpec == GapInit /\ [][NormNext]_vars /\ WF_vars(ScanDay)

-----------------------------------------------------------------------------
(* What the slash-date claims speak about *)

\* the value of row i is in two-digit/two-digit/four-digit slash form
IsSlashRow(i) == ~IsMissingDate(rows[i].date) /\ MatchesSlashDate(TrimmedAt(i))

FirstToken(i) == DigitsToNum(SubSeq(TrimmedAt(i), 1, 2))
SecondToken(i) == DigitsToNum(SubSeq(TrimmedAt(i), 4, 5))
YearToken(i) == DigitsToNum(SubSeq(TrimmedAt(i), 7, 10))

\* the loop has gone past row i: the row was normalized or dropped
Passed(i) == rowIdx > i

\* the run has ended at row i with a failure
FailedAt(i) ==
    /\ npc = "done"
    /\ ~normResult.ok
    /\ "rowIndex" \in DOMAIN normResult.error
    /\ normResult.error.rowIndex = i - 1
    /\ rowIdx = i

FailedWith(i, code) == FailedAt(i) /\ normResult.error.code = code

\* the loop has decided row i
Decided(i) == Passed(i) \/ FailedAt(i)

\* year-month-day is a day of the calendar
IsCalendarDay(year, month, day) ==
    /\ month \in 1..12
    /\ day >= 1
    /\ day <= (IF month = 2 THEN (IF IsLeap(year) THEN 29 ELSE 28)
               ELSE IF month \in {4, 6, 9, 11} THEN 30 ELSE 31)

\* the normalized rows made from the value of row i
NormalizedFrom(i) == {j \in DOMAIN normalized : normalized[j].date = rows[i].date}

\* the text YYYY-MM-DD cut from a slash value, the day at characters dayAt..dayAt+1
\* and the month at monthAt..monthAt+1
IsoCutFrom(s, dayAt, monthAt) ==
    SubSeq(s, 7, 10) \o <<"-">> \o SubSeq(s, monthAt, monthAt + 1) \o <<"-">>
        \o SubSeq(s, dayAt, dayAt + 1)

C10_AsStated ==
    \A i \in DOMAIN rows :
        (/\ IsSlashRow(i)
         /\ Decided(i)
         /\ ~IsCalendarDay(YearToken(i), SecondToken(i), FirstToken(i))
         /\ ~IsCalendarDay(YearToken(i), FirstToken(i), SecondToken(i)))
            => FailedWith(i, "DATE_INVALID")

-----------------------------------------------------------------------------
(* What the month-name and date-time claims speak about *)

\* the month an English month word of the drawn values names, 0 for none
WordMonth(word) ==
    CASE word = <<"S", "e", "p", "t", "e", "m", "b", "e", "r">> -> 9
      [] word = <<"S", "e", "p">> -> 9
      [] word = <<"F", "E", "B">> -> 2
      [] OTHER -> 0

\* row i is normalized, every row made from its value carrying the date dateIso
NormalizedAs(i, dateIso) ==
    /\ Passed(i)
    /\ NormalizedFrom(i) # {}
    /\ \A j \in NormalizedFrom(i) : normalized[j].date_iso = dateIso

\* C11: a decided month-name value with an English month word, a day of that
\* month and a four-digit year is normalized to that day, with or without the
\* leading time fragment and with or without the comma before the year
C11_AsStated ==
    \A i \in DOMAIN rows :
        \A timed \in BOOLEAN, comma \in BOOLEAN, word \in MonthWords, day \in {5, 10, 31} :
            (/\ rows[i].date = MonthNameStr(timed, word, day, comma, 2024)
             /\ WordMonth(word) # 0
             /\ IsCalendarDay(2024, WordMonth(word), day)
             /\ Decided(i))
                => NormalizedAs(i, toIsoDateFromParts(2024, WordMonth(word), day))

\* the value of row i has an ISO date-time prefix
IsTimestampRow(i) ==
    ~IsMissingDate(rows[i].date) /\ rows[i].date \in TimestampValues \cup LastYearValues

\* the text after the minutes of a drawn date-time value: its zone designator
ZoneTextOf(i) == Drop(TrimmedAt(i), 16)

\* the day number of a date text <year>-MM-DD, the year of any length
TextDayNumber(dateIso) ==
    LET k == IndexOf(dateIso, "-")
        y == DigitsToNum(SubSeq(dateIso, 1, k - 1))
        m == DigitsToNum(SubSeq(dateIso, k + 1, k + 2))
        d == DigitsToNum(SubSeq(dateIso, k + 4, k + 5))
        yy == IF m <= 2 THEN y - 1 ELSE y
        mm == IF m <= 2 THEN m + 9 ELSE m - 3
    IN 365 * yy + (yy \div 4) - (yy \div 100) + (yy \div 400) + ((153 * mm + 2) \div 5) + d - 1

\* minutes from the midnight that begins the written day to the instant of the
\* value of row i, on the clock of the environment
LocalMinuteOf(i) ==
    LET t == TrimmedAt(i)
        written == 60 * DigitsToNum(SubSeq(t, 12, 13)) + DigitsToNum(SubSeq(t, 15, 16))
        z == ZoneTextOf(i)
        east == IF z = <<"Z">> THEN 0
                ELSE (IF z[1] = "-" THEN -1 ELSE 1)
                       * (60 * DigitsToNum(SubSeq(z, 2, 3)) + DigitsToNum(SubSeq(z, 5, 6)))
    IN IF z = <<>> THEN written ELSE written - east + timezoneOffset

\* C12 (as stated): the date of a normalized date-time value is the date written
\* in its first ten characters
C12_AsStated ==
    \A i \in DOMAIN rows :
        (IsTimestampRow(i) /\ Decided(i)) => NormalizedAs(i, SubSeq(TrimmedAt(i), 1, 10))

\* C12 (amended): a date-time value without zone designator is normalized to the
\* date written in its first ten characters; one with Z or an offset is
\* normalized to the calendar day, on the clock of the environment, that holds
\* the instant the value denotes
C12_LocalDayOfInstant ==
    \A i \in DOMAIN rows :
        (IsTimestampRow(i) /\ Decided(i)) =>
            /\ Passed(i)
            /\ NormalizedFrom(i) # {}
            /\ \A j \in NormalizedFrom(i) :
                  LET days == TextDayNumber(normalized[j].date_iso)
                                  - TextDayNumber(SubSeq(TrimmedAt(i), 1, 10))
                  IN /\ 1440 * days <= LocalMinuteOf(i)
                     /\ LocalMinuteOf(i) < 1440 * (days + 1)
                     /\ ZoneTextOf(i) = <<>> => days = 0

\* a finished run that put a value written in UTC on the day after the written one
C12_Witness ==
    /\ npc = "done"
    /\ normResult.ok
    /\ IsTimestampRow(1)
    /\ ZoneTextOf(1) = <<"Z">>
    /\ timezoneOffset > 0
    /\ \E j \in NormalizedFrom(1) :
          TextDayNumber(normalized[j].date_iso) = TextDayNumber(SubSeq(TrimmedAt(1), 1, 10)) + 1

-----------------------------------------------------------------------------
(* What the batch claims speak about *)

NormDone == npc = "done"
NormOk == npc = "done" /\ normResult.ok

\* the cell of row i is absent or holds blanks only
IsBlankCell(i) == rows[i].date = NullCell \/ \A k \in DOMAIN rows[i].date : rows[i].date[k] = " "

BlankRows == {i \in DOMAIN rows : IsBlankCell(i)}

\* the date cells of the rows whose cell is not blank, in their order
RECURSIVE FilledCells(_)
FilledCells(i) ==
    IF i > Len(rows) THEN <<>>
    ELSE (IF IsBlankCell(i) THEN <<>> ELSE <<rows[i].date>>) \o FilledCells(i + 1)

\* the warnings of the result about dropped rows
DropWarnings ==
    {k \in DOMAIN normResult.warnings :
        normResult.warnings[k].text = "Dropped rows due to missing dates"}

\* C13: under 'drop' a row without date is passed over, and a successful result
\* holds exactly the rows with a date, in their order, with one warning that
\* counts the rows removed, and none when no row was removed; under any other
\* setting the run fails at the first row without date with DATE_INVALID and that
\* row's index, and returns no rows
C13_MissingDatePolicy ==
    /\ \A i \in BlankRows :
          Decided(i) =>
              IF onMissingDate = "drop" THEN Passed(i) /\ NormalizedFrom(i) = {}
              ELSE /\ FailedWith(i, "DATE_INVALID")
                   /\ \A k \in BlankRows : k >= i
                   /\ "rows" \notin DOMAIN normResult
    /\ NormOk =>
          /\ [j \in DOMAIN normResult.rows |-> normResult.rows[j].date] = FilledCells(1)
          /\ BlankRows # {} => onMissingDate = "drop"
          /\ Cardinality(DropWarnings) = (IF BlankRows = {} THEN 0 ELSE 1)
          /\ \A k \in DropWarnings : normResult.warnings[k].count = Cardinality(BlankRows)

\* a successful run under 'drop' that removed a row and returned another
C13_Witness ==
    /\ NormOk
    /\ onMissingDate = "drop"
    /\ BlankRows # {}
    /\ Len(normResult.rows) >= 1
    /\ DropWarnings # {}

\* the drawn month-name texts whose word is an English month name
EnglishMonthTexts ==
    {MonthNameStr(timed, word, day, comma, 2024) :
        timed \in BOOLEAN, word \in {w \in MonthWords : WordMonth(w) # 0}, day \in {5, 10, 31},
        comma \in BOOLEAN}

\* the format family a date text is written in, "none" when it is in none or
\* its family cannot be told
TextFamily(v) ==
    LET t == Trim(v)
    IN IF t = <<>> THEN "none"
       ELSE IF Len(t) >= 10 /\ MatchesIsoDate(SubSeq(t, 1, 10)) /\ (Len(t) = 10 \/ t[11] = "T")
            THEN "iso"
       ELSE IF MatchesSlashDate(t)
            THEN (IF DigitsToNum(SubSeq(t, 1, 2)) > 12 /\ DigitsToNum(SubSeq(t, 4, 5)) <= 12
                  THEN "dmy"
                  ELSE IF DigitsToNum(SubSeq(t, 4, 5)) > 12 /\ DigitsToNum(SubSeq(t, 1, 2)) <= 12
                  THEN "mdy"
                  ELSE "none")
       ELSE IF t \in EnglishMonthTexts THEN "month_name"
       ELSE "none"

\* dateIso is written YYYY-MM-DD and names a day of the calendar
IsWellFormedDay(dateIso) ==
    /\ Len(dateIso) = 10
    /\ \A k \in {1, 2, 3, 4, 6, 7, 9, 10} : dateIso[k] \in DigitChars
    /\ dateIso[5] = "-" /\ dateIso[8] = "-"
    /\ IsCalendarDay(DigitsToNum(SubSeq(dateIso, 1, 4)), DigitsToNum(SubSeq(dateIso, 6, 7)),
                     DigitsToNum(SubSeq(dateIso, 9, 10)))

\* inner is outer without the blanks at its two ends
IsTrimOf(inner, outer) ==
    /\ inner # <<>> /\ inner[1] # " " /\ inner[Len(inner)] # " "
    /\ \E a \in 0..(Len(outer) - Len(inner)) :
          /\ SubSeq(outer, a + 1, a + Len(inner)) = inner
          /\ \A k \in (1..a) \cup ((a + Len(inner) + 1)..Len(outer)) : outer[k] = " "

\* C14: the rows of a successful result are written in one format family, each
\* with a well-formed date_iso that names a calendar day and with date_raw the
\* trimmed original text; a batch written in two families returns no rows
C14_AsStated ==
    /\ NormOk =>
          /\ \A j, k \in DOMAIN normResult.rows :
                TextFamily(normResult.rows[j].date) = TextFamily(normResult.rows[k].date)
          /\ \A j \in DOMAIN normResult.rows :
                /\ IsWellFormedDay(normResult.rows[j].date_iso)
                /\ IsTrimOf(normResult.rows[j].date_raw, normResult.rows[j].date)
    /\ NormDone =>
          ((\E i, k \in DOMAIN rows :
                /\ TextFamily(rows[i].date) # "none" /\ TextFamily(rows[k].date) # "none"
                /\ TextFamily(rows[i].date) # TextFamily(rows[k].date))
              => "rows" \notin DOMAIN normResult)

\* the batch holds values written in two format families
TwoFamilies ==
    \E i, k \in DOMAIN rows :
        /\ TextFamily(rows[i].date) # "none" /\ TextFamily(rows[k].date) # "none"
        /\ TextFamily(rows[i].date) # TextFamily(rows[k].date)

\* the run has ended at a value that no parser recognizes
EndedUnrecognized ==
    \E i \in DOMAIN rows : FailedAt(i) /\ ~IsBlankCell(i) /\ parseDateValue(TrimmedAt(i)) = NoParse

\* C15 (as stated): a finished run on a batch written in two format families has
\* failed with DATE_MIXED_FORMATS, also when a value of the batch is invalid or
\* ambiguous (the runs ended by an unrecognized value are left aside)
C15_AsStated ==
    (NormDone /\ TwoFamilies /\ ~EndedUnrecognized)
        => (~normResult.ok /\ normResult.error.code = "DATE_MIXED_FORMATS")

\* the families of the values that were normalized
FamiliesNormalized == {TextFamily(normalized[j].date) : j \in DOMAIN normalized}

\* C15 (amended): a run whose loop went through every row and normalized values of
\* more than one family fails with DATE_MIXED_FORMATS naming exactly those
\* families; a run that a row has ended fails with that row's DATE_INVALID or
\* DATE_AMBIGUOUS, whatever the families of the batch
C15_MixedFormats ==
    NormDone =>
        /\ (rowIdx > Len(rows) /\ Cardinality(FamiliesNormalized) > 1) =>
              /\ ~normResult.ok
              /\ normResult.error.code = "DATE_MIXED_FORMATS"
              /\ normResult.error.families = FamiliesNormalized
        /\ (rowIdx > Len(rows) /\ Cardinality(FamiliesNormalized) <= 1) => normResult.ok
        /\ \A i \in DOMAIN rows :
              FailedAt(i) => normResult.error.code \in {"DATE_INVALID", "DATE_AMBIGUOUS"}

\* a run that normalized a day-first and a month-first value and failed with
\* DATE_MIXED_FORMATS
C15_Witness ==
    /\ NormDone
    /\ ~normResult.ok
    /\ normResult.error.code = "DATE_MIXED_FORMATS"
    /\ FamiliesNormalized = {"dmy", "mdy"}

-----------------------------------------------------------------------------
(* csvParser.js: the functions *)

Tab == "\t"
Quote == "\""

\* String.prototype.trim / trimEnd on the white space of a line: blanks and tabs
RECURSIVE TrimStartWs(_)
TrimStartWs(s) == IF s # <<>> /\ Head(s) \in {" ", Tab} THEN TrimStartWs(Tail(s)) ELSE s

RECURSIVE TrimEndWs(_)
TrimEndWs(s) ==
    IF s # <<>> /\ s[Len(s)] \in {" ", Tab} THEN TrimEndWs(SubSeq(s, 1, Len(s) - 1)) ELSE s

TrimWs(s) == TrimEndWs(TrimStartWs(s))

\* parseCsvLine(line, delimiter), from position i with the field read so far
RECURSIVE CsvFields(_, _, _, _, _)
CsvFields(line, delim, i, current, inQuotes) ==
    IF i > Len(line) THEN <<current>>
    ELSE IF line[i] = Quote
         THEN (IF inQuotes /\ i + 1 <= Len(line) /\ line[i + 1] = Quote
               THEN CsvFields(line, delim, i + 2, Append(current, Quote), inQuotes)
               ELSE CsvFields(line, delim, i + 1, current, ~inQuotes))
    ELSE IF ~inQuotes /\ line[i] = delim
         THEN <<current>> \o CsvFields(line, delim, i + 1, <<>>, inQuotes)
    ELSE CsvFields(line, delim, i + 1, Append(current, line[i]), inQuotes)

parseCsvLine(line, delim) == CsvFields(line, delim, 1, <<>>, FALSE)

\* const candidates = [',', ';', '\t']
DelimiterCandidates == <<",", ";", Tab>>

\* lines.slice(0, 10)
SampleLength == 10

\* the mode of the counts, the first of the most frequent in the order they were
\* first met: [count, frequency]
ModeOf(counts) ==
    LET Freq(c) == Cardinality({k \in DOMAIN counts : counts[k] = c})
        best == CHOOSE k \in DOMAIN counts :
                    /\ \A j \in DOMAIN counts : Freq(counts[j]) <= Freq(counts[k])
                    /\ \A j \in 1..(k - 1) : Freq(counts[j]) < Freq(counts[k])
    IN <<counts[best], Freq(counts[best])>>

\* the score of a candidate on the sample, times the length of the sample;
\* -1 when no line splits into more than one field
DelimiterScore(sample, delim) ==
    LET counts == [k \in DOMAIN sample |-> Len(parseCsvLine(sample[k], delim))]
        nonTrivialCounts == SelectSeq(counts, LAMBDA c : c > 1)
        mode == ModeOf(nonTrivialCounts)
    IN IF nonTrivialCounts = <<>> THEN -1 ELSE mode[1] * mode[2]

\* detectDelimiter(lines): the first candidate of the highest score, ',' when none scores
detectDelimiter(lines) ==
    LET sample == SubSeq(lines, 1, IF Len(lines) < SampleLength THEN Len(lines) ELSE SampleLength)
        scores == [k \in 1..3 |-> DelimiterScore(sample, DelimiterCandidates[k])]
        \* best starts as { delimiter: ',', score: -1 } and changes on a strictly higher score
        winner == CHOOSE k \in 1..3 :
                      /\ \A j \in 1..3 : scores[j] <= scores[k]
                      /\ \A j \in 1..(k - 1) : scores[j] < scores[k]
    IN IF scores[winner] > -1 THEN DelimiterCandidates[winner] ELSE ","

\* s.replace(/c+/g, '_') for the characters c of a class
RECURSIVE ReplaceRuns(_, _)
ReplaceRuns(s, class) ==
    IF s = <<>> THEN <<>>
    ELSE IF Head(s) \in class
         THEN <<"_">> \o ReplaceRuns(Drop(s, RunOf(s, class)), class)
         ELSE <<Head(s)>> \o ReplaceRuns(Tail(s), class)

\* [a-z0-9_]
HeaderChars == {LowerLetters[j] : j \in 1..26} \cup DigitChars \cup {"_"}

\* normalizeHeaderToken(token)
normalizeHeaderToken(token) ==
    LET lowered == toLowerCase(TrimWs(token))
        spaced == ReplaceRuns(lowered, {" ", Tab})
        dashed == ReplaceRuns(spaced, {"-"})
        kept == SelectSeq(dashed, LAMBDA c : c \in HeaderChars)
    IN ReplaceRuns(kept, {"_"})

\* the names of the header fields: a token met before gets the suffix _<times met>
RECURSIVE HeaderNames(_, _)
HeaderNames(headerFields, upTo) ==
    IF upTo = 0 THEN <<>>
    ELSE LET base == normalizeHeaderToken(headerFields[upTo])
             next == Cardinality({k \in 1..upTo : normalizeHeaderToken(headerFields[k]) = base})
         IN Append(HeaderNames(headerFields, upTo - 1),
                   IF next = 1 THEN base ELSE base \o <<"_">> \o NumToStr(next))

\* the row of a data line: row[key] = trimmed.length ? trimmed : null, a later
\* column of the same name writing over an earlier one
RowOf(fields, headerNames) ==
    [key \in {headerNames[c] : c \in DOMAIN headerNames} |->
        LET c == CHOOSE c \in DOMAIN headerNames :
                     /\ headerNames[c] = key
                     /\ \A c2 \in DOMAIN headerNames : headerNames[c2] = key => c2 <= c
            raw == IF c <= Len(fields) THEN fields[c] ELSE <<>>
            trimmed == TrimWs(raw)
        IN IF Len(trimmed) > 0 THEN trimmed ELSE NullCell]

\* pickColumn(normalizedHeaders, candidates): the first candidate among the headers,
\* <<>> for null
RECURSIVE pickColumn(_, _)
pickColumn(headerNames, candidates) ==
    IF candidates = <<>> THEN <<>>
    ELSE IF \E c \in DOMAIN headerNames : headerNames[c] = Head(candidates)
         THEN Head(candidates)
    ELSE pickColumn(headerNames, Tail(candidates))

\* 10 to the power k
RECURSIVE Pow10(_)
Pow10(k) == IF k = 0 THEN 1 ELSE 10 * Pow10(k - 1)

\* Number(s) for a string of digits, sign, decimal point, blanks and other
\* characters: white space is trimmed, the empty string is 0, a decimal literal is
\* its value, anything else is NaN
StringToNumber(s) ==
    LET t == TrimWs(s)
        signed == t # <<>> /\ Head(t) \in {"+", "-"}
        body == IF signed THEN Tail(t) ELSE t
        n1 == RunOf(body, DigitChars)
        afterInt == Drop(body, n1)
        pointed == afterInt # <<>> /\ Head(afterInt) = "."
        frac == IF pointed THEN Tail(afterInt) ELSE afterInt
        n2 == IF pointed THEN RunOf(frac, DigitChars) ELSE 0
        magnitude == Quot(DigitsToNum(SubSeq(body, 1, n1)) * Pow10(n2)
                              + DigitsToNum(SubSeq(frac, 1, n2)), Pow10(n2))
    IN IF t = <<>> THEN Num(0)
       ELSE IF n1 + n2 >= 1 /\ Len(frac) = n2
            THEN (IF signed /\ Head(t) = "-"
                  THEN [k |-> "num", n |-> -magnitude.n, d |-> magnitude.d]
                  ELSE magnitude)
       ELSE NaN

\* coerceNumber(value, fieldName, rowIndex); NullCell stands for null and undefined
coerceNumber(value, fieldName, rowIndex) ==
    IF value = NullCell THEN [ok |-> TRUE, value |-> Null]
    ELSE LET str == TrimWs(value)
             stripped == SelectSeq(str, LAMBDA c : c # ",")
             num == StringToNumber(stripped)
         IN IF Len(str) = 0 THEN [ok |-> TRUE, value |-> Null]
            ELSE IF ~IsFinite(num)
                 THEN [ok |-> FALSE,
                       error |-> [code |-> "CSV_INVALID_NUMBER", field |-> fieldName,
                                  rowIndex |-> rowIndex, value |-> str]]
            ELSE [ok |-> TRUE, value |-> num]

\* requiredBySource: the aliases of each canonical field
OrdersSchema ==
    [date |-> <<<<"d", "a", "t", "e">>,
          <<"o", "r", "d", "e", "r", "_", "p", "l", "a", "c", "e", "d", "_", "a", "t">>,
          <<"o", "r", "d", "e", "r", "_", "p", "l", "a", "c", "e", "d", "_", "a", "t", "_", "1">>>>,
     total_orders |-> <<<<"t", "o", "t", "a", "l", "_", "o", "r", "d", "e", "r", "s">>,
          <<"o", "r", "d", "e", "r", "_", "c", "o", "u", "n", "t">>,
          <<"o", "r", "d", "e", "r", "s">>,
          <<"t", "o", "t", "a", "l">>>>,
     order_id |-> <<<<"o", "r", "d", "e", "r", "_", "i", "d">>>>]

WeatherSchema ==
    [date |-> <<<<"d", "a", "t", "e">>>>,
     temperature_c |-> <<<<"t", "e", "m", "p", "e", "r", "a", "t", "u", "r", "e", "_", "c">>,
          <<"t", "e", "m", "p", "e", "r", "a", "t", "u", "r", "e">>,
          <<"t", "e", "m", "p">>>>,
     rainfall_mm |-> <<<<"r", "a", "i", "n", "f", "a", "l", "l", "_", "m", "m">>,
          <<"r", "a", "i", "n", "f", "a", "l", "l">>,
          <<"p", "r", "e", "c", "i", "p", "i", "t", "a", "t", "i", "o", "n">>,
          <<"p", "r", "e", "c", "i", "p">>>>,
     humidity_pct |-> <<<<"h", "u", "m", "i", "d", "i", "t", "y", "_", "p", "c", "t">>,
          <<"h", "u", "m", "i", "d", "i", "t", "y">>>>,
     rain_duration_minutes |-> <<<<"r", "a", "i", "n", "_", "d", "u", "r", "a", "t", "i", "o", "n", "_", "m", "i", "n", "u", "t", "e", "s">>,
          <<"r", "a", "i", "n", "_", "d", "u", "r", "a", "t", "i", "o", "n">>,
          <<"d", "u", "r", "a", "t", "i", "o", "n", "_", "m", "i", "n", "u", "t", "e", "s">>,
          <<"d", "u", "r", "a", "t", "i", "o", "n">>>>]

KnownSources == {"orders", "weather"}

SchemaOf(source) == IF source = "orders" THEN OrdersSchema ELSE WeatherSchema

\* canonicalColumnMap[canonical] = pickColumn(normalizedHeaders, schema[canonical])
ColumnMapOf(schema, headerNames) ==
    [canonical \in DOMAIN schema |-> pickColumn(headerNames, schema[canonical])]

\* a variant of MissingColumns that also requires the humidity of a weather file
MissingColumns_HumidityRequired(source, columnMap) ==
    (IF columnMap.date = <<>> THEN <<"date">> ELSE <<>>)
    \o (IF source = "orders" /\ columnMap.total_orders = <<>> /\ columnMap.order_id = <<>>
        THEN <<"total_orders (or order_id to infer counts)">> ELSE <<>>)
    \o (IF source = "weather" /\ columnMap.temperature_c = <<>> THEN <<"temperature">> ELSE <<>>)
    \o (IF source = "weather" /\ columnMap.rainfall_mm = <<>> THEN <<"rainfall">> ELSE <<>>)
    \o (IF source = "weather" /\ columnMap.humidity_pct = <<>> THEN <<"humidity">> ELSE <<>>)

\* the unmet canonical names, in the order they are pushed
MissingColumns(source, columnMap) ==
    (IF columnMap.date = <<>> THEN <<"date">> ELSE <<>>)
    \o (IF source = "orders" /\ columnMap.total_orders = <<>> /\ columnMap.order_id = <<>>
        THEN <<"total_orders (or order_id to infer counts)">> ELSE <<>>)
    \o (IF source = "weather" /\ columnMap.temperature_c = <<>> THEN <<"temperature">> ELSE <<>>)
    \o (IF source = "weather" /\ columnMap.rainfall_mm = <<>> THEN <<"rainfall">> ELSE <<>>)

\* r[column], undefined (here the null cell) when the column is null
CellOf(r, column) == IF column = <<>> THEN NullCell ELSE r[column]

\* lines.length - 1 < 7
MinDataRows == 7

-----------------------------------------------------------------------------
(* Inputs of parseCsvText: files built from a header, data lines and blank lines *)

\* most data lines of a file
MaxDataLines == 8

\* the text of a cell inside a line: in quotes when it holds the delimiter
CellText(cell, delim) ==
    IF \E k \in DOMAIN cell : cell[k] = delim THEN <<Quote>> \o cell \o <<Quote>> ELSE cell

RECURSIVE JoinCells(_, _)
JoinCells(cells, delim) ==
    IF cells = <<>> THEN <<>>
    ELSE IF Len(cells) = 1 THEN CellText(cells[1], delim)
    ELSE CellText(cells[1], delim) \o <<delim>> \o JoinCells(Tail(cells), delim)

OrdersHeaders ==
    { <<<<"d", "a", "t", "e">>, <<"t", "o", "t", "a", "l", "_", "o", "r", "d", "e", "r", "s">>>>,
      <<<<"O", "r", "d", "e", "r", " ", "P", "l", "a", "c", "e", "d", " ", "A", "t">>, <<"T", "o", "t", "a", "l", " ", "O", "r", "d", "e", "r", "s">>, <<"C", "i", "t", "y">>>>,
      <<<<"d", "a", "t", "e">>, <<"o", "r", "d", "e", "r", "_", "i", "d">>>>,
      <<<<"d", "a", "t", "e">>, <<"o", "r", "d", "e", "r", "_", "i", "d">>, <<"o", "r", "d", "e", "r", "s">>>>,
      <<<<"d", "a", "t", "e">>, <<"c", "i", "t", "y">>>>,
      <<<<"c", "i", "t", "y">>, <<"t", "o", "t", "a", "l">>>>,
      <<<<"w", "h", "e", "n">>, <<"c", "i", "t", "y">>>>,
      <<<<"d", "a", "t", "e">>, <<"t", "o", "t", "a", "l">>, <<"a">>, <<"A">>>>,
      <<<<"d", "a", "t", "e">>, <<"t", "o", "t", "a", "l">>, <<"a">>, <<"a">>, <<"a", "_", "2">>>> }

WeatherHeaders ==
    { <<<<"d", "a", "t", "e">>, <<"t", "e", "m", "p">>, <<"r", "a", "i", "n", "f", "a", "l", "l">>>>,
      <<<<"D", "a", "t", "e">>, <<"T", "e", "m", "p", "e", "r", "a", "t", "u", "r", "e">>, <<"P", "r", "e", "c", "i", "p">>, <<"H", "u", "m", "i", "d", "i", "t", "y">>>>,
      <<<<"d", "a", "t", "e">>, <<"t", "e", "m", "p">>>>,
      <<<<"d", "a", "y">>, <<"h", "u", "m", "i", "d", "i", "t", "y">>>> }

\* the headers of the files that are also written with semicolons
PlainHeaders ==
    { <<<<"d", "a", "t", "e">>, <<"t", "o", "t", "a", "l", "_", "o", "r", "d", "e", "r", "s">>>>,
      <<<<"d", "a", "t", "e">>, <<"t", "e", "m", "p">>, <<"r", "a", "i", "n", "f", "a", "l", "l">>>> }

HeadersOf(source) ==
    IF source = "weather" THEN WeatherHeaders
    ELSE IF source = "orders" THEN OrdersHeaders
    ELSE OrdersHeaders \cap PlainHeaders

\* the cells written in one place of a file in place of the common cell
SpecialCells ==
    { <<"0">>, <<>>, <<" ">>, <<",">>, <<"1", ",", "0", "0", "0">>, <<"x">>, <<"-", "1", ".", "5">>,
      <<"1", " ", "2">> }

CommonCell == <<"5">>

\* the cells of the k-th data line: the first names the line, the others hold
\* the common cell, but for cell x at column j of line at
DataCells(k, width, at, j, x) ==
    [c \in 1..width |->
        IF c = 1 THEN <<"d">> \o NumToStr(k)
        ELSE IF k = at /\ c = j THEN x
        ELSE CommonCell]

\* a line of the shape: with all its cells, without its last, or with one more
Shaped(cells, shape) ==
    IF shape = "short" THEN SubSeq(cells, 1, Len(cells) - 1)
    ELSE IF shape = "long" THEN Append(cells, <<"9">>)
    ELSE cells

\* the lines of a file: the header, n data lines, a blank line after line blankAt
FileOf(header, delim, n, at, j, x, shape, blankAt) ==
    LET Line(k) == JoinCells(IF k = at THEN Shaped(DataCells(k, Len(header), at, j, x), shape)
                             ELSE DataCells(k, Len(header), at, j, x), delim)
        body == [k \in 1..n |-> Line(k)]
        all == <<JoinCells(header, delim)>> \o body
    IN IF blankAt = 0 THEN all
       ELSE SubSeq(all, 1, blankAt) \o << <<" ">> >> \o SubSeq(all, blankAt + 1, Len(all))

\* what makes one line of a file special: a cell x at column j, or the shape
Variants(width) ==
    {<<j, x, "full">> : j \in 2..width, x \in SpecialCells}
        \cup {<<2, CommonCell, shape>> : shape \in {"short", "long"}}

CsvFiles(source) ==
    UNION { { FileOf(header, delim, n, at, v[1], v[2], v[3], blankAt) :
                  at \in {0, 1, n} \ {k \in {0, 1} : k > n},
                  v \in Variants(Len(header)),
                  blankAt \in {0, 1} } :
            header \in HeadersOf(source),
            delim \in {",", ";"},
            n \in 0..MaxDataLines }

\* the files drawn: those with semicolons have a plain header
CsvFilesDrawn(source) ==
    {f \in CsvFiles(source) :
        (\E k \in DOMAIN f[1] : f[1][k] = ";") => parseCsvLine(f[1], ";") \in PlainHeaders}

CsvInit ==
    /\ LoaderIdle
    /\ ProxyIdle
    /\ RerunIdle
    /\ MetricsIdle
    /\ sourceName \in {"orders", "weather", "sales"}
    /\ text \in CsvFilesDrawn(sourceName)
    /\ cpc = "start"
    /\ delimiter = ","
    /\ normalizedHeaders = <<>>
    /\ csvRows = <<>>
    /\ csvWarnings = <<>>
    /\ canonicalColumnMap = <<>>
    /\ canonicalRows = <<>>
    /\ csvIdx = 0
    /\ csvResult = [ok |-> FALSE]
    /\ MergeIdle
    /\ NormIdle

-----------------------------------------------------------------------------
(* parseCsvText, step by step *)

\* rawLines.filter((l) => l.trim().length > 0) of the lines with their ends
\* trimmed, the first without the white space that text.trim() removes
Lines ==
    LET ended == [k \in DOMAIN text |-> TrimEndWs(text[k])]
        kept == SelectSeq(ended, LAMBDA l : Len(TrimWs(l)) > 0)
    IN [k \in DOMAIN kept |-> IF k = 1 THEN TrimStartWs(kept[k]) ELSE kept[k]]

\* a variant of CsvFail that hands back the rows built before the failure
CsvFail_KeepRows(error) ==
    /\ csvResult' = [ok |-> FALSE, error |-> error, rows |-> canonicalRows]
    /\ cpc' = "done"
    /\ UNCHANGED <<text, sourceName, delimiter, normalizedHeaders, csvRows, csvWarnings,
                   canonicalColumnMap, canonicalRows, csvIdx, mergeVars, normVars, metricsVars, rerunVars, proxyVars, loaderVars>>

\* return { ok: false, error: makeError(code, ...) }
CsvFail(error) ==
    /\ csvResult' = [ok |-> FALSE, error |-> error]
    /\ cpc' = "done"
    /\ UNCHANGED <<text, sourceName, delimiter, normalizedHeaders, csvRows, csvWarnings,
                   canonicalColumnMap, canonicalRows, csvIdx, mergeVars, normVars, metricsVars, rerunVars, proxyVars, loaderVars>>

\* if (!cleaned) / if (lines.length < 2) return CSV_EMPTY
ReturnCsvEmpty ==
    /\ cpc = "start"
    /\ Len(Lines) < 2
    /\ CsvFail([code |-> "CSV_EMPTY"])

\* a variant of TooFewRows that counts the header among the rows
TooFewRows_CountsHeader(lines) == Len(lines) < MinDataRows

\* lines.length - 1 < 7
TooFewRows(lines) == Len(lines) - 1 < MinDataRows

\* if (lines.length - 1 < 7) return CSV_TOO_FEW_ROWS
ReturnTooFewRows ==
    /\ cpc = "start"
    /\ LET lines == Lines
       IN /\ Len(lines) >= 2
          /\ TooFewRows(lines)
          /\ CsvFail([code |-> "CSV_TOO_FEW_ROWS", rows |-> Len(lines) - 1])

\* the warning of a line whose number of fields is not the header's
ShapeWarning(i, fields, expected) ==
    [text |-> "Row has other columns than expected", row |-> i + 1, columns |-> fields,
     expected |-> expected]

\* the warnings of the data lines, in their order
RECURSIVE ShapeWarnings(_, _, _)
ShapeWarnings(fieldsOf, expected, i) ==
    IF i > Len(fieldsOf) THEN <<>>
    ELSE (IF Len(fieldsOf[i]) # expected
          THEN <<ShapeWarning(i, Len(fieldsOf[i]), expected)>>
          ELSE <<>>) \o ShapeWarnings(fieldsOf, expected, i + 1)

\* the delimiter, the header names and the rows of the data lines; each const of
\* the code is a value bound once
ReadTable ==
    /\ cpc = "start"
    /\ \E lines \in {Lines} :
          /\ Len(lines) >= 2
          /\ ~TooFewRows(lines)
          /\ \E delim \in {detectDelimiter(lines)} :
             \E headerFields \in {[c \in DOMAIN parseCsvLine(lines[1], delim) |->
                                      TrimWs(parseCsvLine(lines[1], delim)[c])]} :
             \E names \in {HeaderNames(headerFields, Len(headerFields))} :
             \* the fields of the data lines, line i + 1 of the file at place i
             \E fieldsOf \in {[i \in 1..(Len(lines) - 1) |-> parseCsvLine(lines[i + 1], delim)]} :
                /\ delimiter' = delim
                /\ normalizedHeaders' = names
                /\ csvRows' = [i \in DOMAIN fieldsOf |-> RowOf(fieldsOf[i], names)]
                /\ csvWarnings' = ShapeWarnings(fieldsOf, Len(headerFields), 1)
    /\ cpc' = "schema"
    /\ UNCHANGED <<text, sourceName, canonicalColumnMap, canonicalRows, csvIdx, csvResult,
                   mergeVars, normVars, metricsVars, rerunVars, proxyVars, loaderVars>>

\* if (!schema) return CSV_UNKNOWN_SCHEMA
ReturnUnknownSchema ==
    /\ cpc = "schema"
    /\ sourceName \notin KnownSources
    /\ CsvFail([code |-> "CSV_UNKNOWN_SCHEMA"])

\* if (missing.length) return MISSING_REQUIRED_COLUMN
ReturnMissingColumn ==
    /\ cpc = "schema"
    /\ sourceName \in KnownSources
    /\ LET columnMap == ColumnMapOf(SchemaOf(sourceName), normalizedHeaders)
       IN /\ MissingColumns(sourceName, columnMap) # <<>>
          /\ CsvFail([code |-> "MISSING_REQUIRED_COLUMN",
                      missing |-> MissingColumns(sourceName, columnMap),
                      detectedHeaders |-> normalizedHeaders])

\* the columns are there: the loop over the rows begins
ResolveColumns ==
    /\ cpc = "schema"
    /\ sourceName \in KnownSources
    /\ LET columnMap == ColumnMapOf(SchemaOf(sourceName), normalizedHeaders)
       IN /\ MissingColumns(sourceName, columnMap) = <<>>
          /\ canonicalColumnMap' = columnMap
    /\ cpc' = "rows"
    /\ csvIdx' = 0
    /\ UNCHANGED <<text, sourceName, delimiter, normalizedHeaders, csvRows, csvWarnings,
                   canonicalRows, csvResult, mergeVars, normVars, metricsVars, rerunVars, proxyVars, loaderVars>>

InRows == cpc = "rows" /\ csvIdx < Len(csvRows)

\* the row at hand: const r = rows[i]
ThisRow == csvRows[csvIdx + 1]

InferenceWarning == [text |-> "No total_orders column found; inferring total_orders=1 per row"]

\* a variant of OrdersValue that infers one order per row whenever order_id is there
OrdersValue_IdFirst ==
    IF canonicalColumnMap.order_id # <<>> THEN [ok |-> TRUE, value |-> Num(1)]
    ELSE IF canonicalColumnMap.total_orders # <<>>
    THEN coerceNumber(CellOf(ThisRow, canonicalColumnMap.total_orders), "total_orders", csvIdx)
    ELSE [ok |-> TRUE, value |-> Null]

\* the count of an orders row: coerced from the count column, or 1 by order_id
OrdersValue ==
    IF canonicalColumnMap.total_orders # <<>>
    THEN coerceNumber(CellOf(ThisRow, canonicalColumnMap.total_orders), "total_orders", csvIdx)
    ELSE IF canonicalColumnMap.order_id # <<>> THEN [ok |-> TRUE, value |-> Num(1)]
    ELSE [ok |-> TRUE, value |-> Null]

\* an orders row: canonicalRows.push({ ...r, date, total_orders })
CanonicalOrdersRow ==
    /\ InRows
    /\ sourceName = "orders"
    /\ OrdersValue.ok
    /\ canonicalRows' = Append(canonicalRows,
                               [raw |-> ThisRow, date |-> CellOf(ThisRow, canonicalColumnMap.date),
                                total_orders |-> OrdersValue.value])
    /\ csvWarnings' = IF /\ canonicalColumnMap.total_orders = <<>>
                         /\ canonicalColumnMap.order_id # <<>>
                         /\ csvIdx = 0
                      THEN Append(csvWarnings, InferenceWarning) ELSE csvWarnings
    /\ csvIdx' = csvIdx + 1
    /\ UNCHANGED <<text, sourceName, cpc, delimiter, normalizedHeaders, csvRows,
                   canonicalColumnMap, csvResult, mergeVars, normVars, metricsVars, rerunVars, proxyVars, loaderVars>>

\* the numeric fields of a weather row, in the order they are coerced
WeatherFields == <<"temperature_c", "rainfall_mm", "humidity_pct", "rain_duration_minutes">>

WeatherValue(k) ==
    coerceNumber(CellOf(ThisRow, canonicalColumnMap[WeatherFields[k]]), WeatherFields[k], csvIdx)

\* a weather row: canonicalRows.push({ ...r, date, temperature_c, ... })
CanonicalWeatherRow ==
    /\ InRows
    /\ sourceName = "weather"
    /\ \A k \in 1..4 : WeatherValue(k).ok
    /\ canonicalRows' = Append(canonicalRows,
                               [raw |-> ThisRow, date |-> CellOf(ThisRow, canonicalColumnMap.date),
                                temperature_c |-> WeatherValue(1).value,
                                rainfall_mm |-> WeatherValue(2).value,
                                humidity_pct |-> WeatherValue(3).value,
                                rain_duration_minutes |-> WeatherValue(4).value])
    /\ csvIdx' = csvIdx + 1
    /\ UNCHANGED <<text, sourceName, cpc, delimiter, normalizedHeaders, csvRows, csvWarnings,
                   canonicalColumnMap, csvResult, mergeVars, normVars, metricsVars, rerunVars, proxyVars, loaderVars>>

\* if (!coerced.ok) return { ok: false, error: coerced.error }: the first field that fails
ReturnInvalidNumber ==
    /\ InRows
    /\ \/ /\ sourceName = "orders"
          /\ ~OrdersValue.ok
          /\ CsvFail(OrdersValue.error)
       \/ /\ sourceName = "weather"
          /\ \E k \in 1..4 :
                /\ ~WeatherValue(k).ok
                /\ \A j \in 1..(k - 1) : WeatherValue(j).ok
                /\ CsvFail(WeatherValue(k).error)

\* return { ok: true, delimiter, headers, rows: canonicalRows, warnings }
ReturnParsed ==
    /\ cpc = "rows"
    /\ csvIdx >= Len(csvRows)
    /\ csvResult' = [ok |-> TRUE, delimiter |-> delimiter, headers |-> normalizedHeaders,
                     rows |-> canonicalRows, warnings |-> csvWarnings]
    /\ cpc' = "done"
    /\ UNCHANGED <<text, sourceName, delimiter, normalizedHeaders, csvRows, csvWarnings,
                   canonicalColumnMap, canonicalRows, csvIdx, mergeVars, normVars, metricsVars, rerunVars, proxyVars, loaderVars>>

CsvNext ==
    \/ ReturnCsvEmpty
    \/ ReturnTooFewRows
    \/ ReadTable
    \/ ReturnUnknownSchema
    \/ ReturnMissingColumn
    \/ ResolveColumns
    \/ CanonicalOrdersRow
    \/ CanonicalWeatherRow
    \/ ReturnInvalidNumber
    \/ ReturnParsed

CsvSpec == CsvInit /\ [][CsvNext]_vars

-----------------------------------------------------------------------------
(* Claims about parseCsvText *)

CsvDone == cpc = "done"

CsvFailedWith(code) == CsvDone /\ ~csvResult.ok /\ csvResult.error.code = code

\* the lines of the text with something other than white space on them
NonBlankLineCount == Cardinality({k \in DOMAIN text : TrimWs(text[k]) # <<>>})

\* the non-blank lines after the header line
DataLineCount == NonBlankLineCount - 1

\* C16 as stated: every non-empty input with fewer than 7 data lines, a
\* header-only file included, fails with CSV_TOO_FEW_ROWS
C16_AsStated ==
    (CsvDone /\ NonBlankLineCount >= 1 /\ DataLineCount < MinDataRows)
        => CsvFailedWith("CSV_TOO_FEW_ROWS")

\* C16: an input with 1 to 6 data lines after the header fails with
\* CSV_TOO_FEW_ROWS, whatever the source name and the header are (the check
\* comes before the schema and column checks); a header-only file fails with
\* CSV_EMPTY; an input with 7 or more data lines never fails with
\* CSV_TOO_FEW_ROWS
C16_TooFewRows ==
    CsvDone =>
        /\ (DataLineCount >= 1 /\ DataLineCount < MinDataRows)
               => (CsvFailedWith("CSV_TOO_FEW_ROWS") /\ csvResult.error.rows = DataLineCount)
        /\ NonBlankLineCount = 1 => CsvFailedWith("CSV_EMPTY")
        /\ DataLineCount >= MinDataRows => ~CsvFailedWith("CSV_TOO_FEW_ROWS")

\* six data lines under a source with no schema: the row count is what fails
C16_Witness ==
    /\ CsvFailedWith("CSV_TOO_FEW_ROWS")
    /\ DataLineCount = MinDataRows - 1
    /\ sourceName \notin KnownSources

\* the codes of the errors parseCsvText returns
CsvErrorCodes ==
    {"CSV_EMPTY", "CSV_TOO_FEW_ROWS", "CSV_UNKNOWN_SCHEMA", "MISSING_REQUIRED_COLUMN",
     "CSV_INVALID_NUMBER"}

\* the fields of the i-th non-blank data line, split at the delimiter detected
DataFields(i) == parseCsvLine(Lines[i + 1], delimiter)

\* the cell of a data line under column c: its trimmed text, null when the line
\* ends before the column or the text is blank
CellAt(i, c) ==
    IF c <= Len(DataFields(i)) /\ TrimWs(DataFields(i)[c]) # <<>>
    THEN TrimWs(DataFields(i)[c]) ELSE NullCell

\* the columns whose name no other column bears
SingleColumns ==
    {c \in DOMAIN normalizedHeaders :
        \A c2 \in DOMAIN normalizedHeaders : normalizedHeaders[c2] = normalizedHeaders[c] => c2 = c}

\* the warnings about the number of columns of data line i
ShapeWarningsOf(list, i) ==
    {j \in DOMAIN list : "row" \in DOMAIN list[j] /\ list[j].row = i + 1}

\* C17: a parse that succeeds has one canonical row per non-blank data line, in
\* the order of the file, each cell under its column by position and null where
\* the line has no cell, and one warning for each line whose number of fields
\* is not the header's; a parse that fails has one error of a known code and
\* no rows, whatever rows were built before the failure
C17_AllOrNothing ==
    CsvDone =>
        /\ csvResult.ok =>
              /\ DOMAIN csvResult = {"ok", "delimiter", "headers", "rows", "warnings"}
              /\ Len(csvResult.rows) = DataLineCount
              /\ \A i \in DOMAIN csvResult.rows :
                    /\ csvResult.rows[i].raw = csvRows[i]
                    /\ \A c \in SingleColumns :
                          csvResult.rows[i].raw[normalizedHeaders[c]] = CellAt(i, c)
                    /\ Cardinality(ShapeWarningsOf(csvResult.warnings, i))
                           = (IF Len(DataFields(i)) # Len(normalizedHeaders) THEN 1 ELSE 0)
        /\ ~csvResult.ok =>
              /\ DOMAIN csvResult = {"ok", "error"}
              /\ csvResult.error.code \in CsvErrorCodes

\* a parse that built rows and then failed at a later row with an invalid number
C17_Witness ==
    /\ CsvFailedWith("CSV_INVALID_NUMBER")
    /\ csvResult.error.rowIndex >= 1
    /\ Len(canonicalRows) = csvResult.error.rowIndex

\* a parse that succeeded with a line shorter than the header: its row is there,
\* the cell of the last column null, and one warning
ShortLineParsed ==
    /\ CsvDone
    /\ csvResult.ok
    /\ \E i \in DOMAIN csvResult.rows :
          /\ Len(DataFields(i)) < Len(normalizedHeaders)
          /\ csvResult.rows[i].raw[normalizedHeaders[Len(normalizedHeaders)]] = NullCell
          /\ Cardinality(ShapeWarningsOf(csvResult.warnings, i)) = 1

\* the numeric fields of the canonical rows of a source
NumericFields(source) == IF source = "orders" THEN {"total_orders"} ELSE {"temperature_c", "rainfall_mm", "humidity_pct", "rain_duration_minutes"}

\* the cell a numeric field of a row is coerced from: null when the field has no column
SourceCell(r, field) == CellOf(r, canonicalColumnMap[field])

\* what remains of a cell after trimming and removing the commas
Remainder(cell) == SelectSeq(TrimWs(cell), LAMBDA c : c # ",")

\* the remainder of a cell is a number: something is left and it is a finite number
IsNumberText(cell) == Remainder(cell) # <<>> /\ IsFinite(StringToNumber(Remainder(cell)))

\* C18 as stated: in every canonical row built, a numeric field coerced from a
\* column is null exactly when its cell is blank, is otherwise the finite number
\* its cell denotes, and is 0 only for a cell that denotes zero; a failure with
\* CSV_INVALID_NUMBER names a field and a row whose cell is not a number
C18_AsStated ==
    /\ sourceName \in KnownSources =>
          \A i \in DOMAIN canonicalRows : \A field \in NumericFields(sourceName) :
             canonicalColumnMap[field] # <<>> =>
                LET cell == SourceCell(canonicalRows[i].raw, field)
                    value == canonicalRows[i][field]
                IN /\ value = Null <=> cell = NullCell
                   /\ value # Null => (IsFinite(value) /\ IsNumberText(cell))
                   /\ value = Num(0) => (cell # NullCell /\ IsNumberText(cell))
    /\ CsvFailedWith("CSV_INVALID_NUMBER") =>
          LET cell == SourceCell(csvRows[csvResult.error.rowIndex + 1], csvResult.error.field)
          IN cell # NullCell /\ ~IsNumberText(cell) /\ csvResult.error.value = cell

\* the header names, as a set
HeaderSet == {normalizedHeaders[c] : c \in DOMAIN normalizedHeaders}

\* the count columns of the orders schema
CountNames == {OrdersSchema.total_orders[k] : k \in DOMAIN OrdersSchema.total_orders}

HasCountColumn == HeaderSet \cap CountNames # {}

HasOrderId == OrdersSchema.order_id[1] \in HeaderSet

\* the count column used: the first of the count names that is a header
CountColumn == pickColumn(normalizedHeaders, OrdersSchema.total_orders)

ParsedOrders == CsvDone /\ csvResult.ok /\ sourceName = "orders"

InferenceWarnings == {j \in DOMAIN csvResult.warnings : csvResult.warnings[j] = InferenceWarning}

\* C19: an orders file parsed with no count column and an order_id column has
\* total_orders = 1 in every row and exactly one inference warning; one parsed
\* with a count column has in every row the coerced value of that column and no
\* inference warning, with or without an order_id column
C19_OrderCountInference ==
    ParsedOrders =>
        /\ (~HasCountColumn /\ HasOrderId) =>
              /\ \A i \in DOMAIN csvResult.rows : csvResult.rows[i].total_orders = Num(1)
              /\ Cardinality(InferenceWarnings) = 1
        /\ HasCountColumn =>
              /\ \A i \in DOMAIN csvResult.rows :
                    csvResult.rows[i].total_orders
                        = coerceNumber(csvResult.rows[i].raw[CountColumn], "total_orders", i - 1).value
              /\ InferenceWarnings = {}

\* seven or more rows counted by order_id, and the one warning
C19_Witness ==
    /\ ParsedOrders
    /\ ~HasCountColumn
    /\ HasOrderId
    /\ Len(csvResult.rows) >= MinDataRows
    /\ Cardinality(InferenceWarnings) = 1

\* a count column used although order_id is there too
CountBesideOrderId ==
    /\ ParsedOrders
    /\ HasCountColumn
    /\ HasOrderId
    /\ \E i \in DOMAIN csvResult.rows : csvResult.rows[i].total_orders \notin {Num(1), Null}

\* the names of a canonical field of a source, as a set
AliasesOf(source, canonical) ==
    {SchemaOf(source)[canonical][k] : k \in DOMAIN SchemaOf(source)[canonical]}

\* a canonical field of a source has a column: one of its names is a header
HasColumn(source, canonical) == HeaderSet \cap AliasesOf(source, canonical) # {}

\* the required fields of a source with no column, as the error lists them
Unmet(source) ==
    (IF ~HasColumn(source, "date") THEN <<"date">> ELSE <<>>)
    \o (IF source = "orders" /\ ~HasColumn(source, "total_orders") /\ ~HasColumn(source, "order_id")
        THEN <<"total_orders (or order_id to infer counts)">> ELSE <<>>)
    \o (IF source = "weather" /\ ~HasColumn(source, "temperature_c") THEN <<"temperature">> ELSE <<>>)
    \o (IF source = "weather" /\ ~HasColumn(source, "rainfall_mm") THEN <<"rainfall">> ELSE <<>>)

\* the header fields as the file writes them, trimmed
WrittenHeaders ==
    LET fields == parseCsvLine(Lines[1], delimiter)
    IN {TrimWs(fields[c]) : c \in DOMAIN fields}

OrderPlacedAt == <<"O", "r", "d", "e", "r", " ", "P", "l", "a", "c", "e", "d", " ", "A", "t">>

TotalOrders == <<"T", "o", "t", "a", "l", " ", "O", "r", "d", "e", "r", "s">>

\* the place of the column of a name
ColumnOf(name) == CHOOSE c \in DOMAIN normalizedHeaders : normalizedHeaders[c] = name

\* a file of a known source that passed the checks on the number of rows
ColumnsResolved == CsvDone /\ sourceName \in KnownSources /\ DataLineCount >= MinDataRows

\* C20: a file of a known source with enough rows fails with
\* MISSING_REQUIRED_COLUMN exactly when a required field has no column among
\* the normalized headers, and the error lists each such field and the headers
\* detected; a file that parses has in every row, as its date, the cell under
\* the date column, whatever other columns there are; the headers
\* "Order Placed At" and "Total Orders" are the date and the count of an orders file
C20_RequiredColumns ==
    ColumnsResolved =>
        /\ CsvFailedWith("MISSING_REQUIRED_COLUMN") <=> Unmet(sourceName) # <<>>
        /\ CsvFailedWith("MISSING_REQUIRED_COLUMN") =>
              /\ csvResult.error.missing = Unmet(sourceName)
              /\ csvResult.error.detectedHeaders = normalizedHeaders
        /\ csvResult.ok =>
              \A i \in DOMAIN csvResult.rows :
                 LET name == pickColumn(normalizedHeaders, SchemaOf(sourceName).date)
                 IN ColumnOf(name) \in SingleColumns
                        => csvResult.rows[i].date = CellAt(i, ColumnOf(name))
        /\ (sourceName = "orders" /\ {OrderPlacedAt, TotalOrders} \subseteq WrittenHeaders) =>
              /\ Unmet(sourceName) = <<>>
              /\ csvResult.ok =>
                    \A i \in DOMAIN csvResult.rows :
                       /\ csvResult.rows[i].date = CellAt(i, ColumnOf(normalizeHeaderToken(OrderPlacedAt)))
                       /\ csvResult.rows[i].total_orders
                              = coerceNumber(CellAt(i, ColumnOf(normalizeHeaderToken(TotalOrders))),
                                             "total_orders", i - 1).value

\* an orders file headed "Order Placed At", "Total Orders" and another column, parsed
C20_Witness ==
    /\ ColumnsResolved
    /\ csvResult.ok
    /\ sourceName = "orders"
    /\ {OrderPlacedAt, TotalOrders} \subseteq WrittenHeaders
    /\ Len(normalizedHeaders) > 2

\* a weather file with neither its date nor its rainfall: both are listed
TwoColumnsMissing ==
    /\ CsvFailedWith("MISSING_REQUIRED_COLUMN")
    /\ Len(csvResult.error.missing) >= 2

\* the header has been read
HeaderRead == cpc \in {"schema", "rows"} \/ (CsvDone /\ DataLineCount >= MinDataRows)

\* C29 as stated: the normalized header names are pairwise distinct, and every
\* row holds under the name of each column the cell of that column
C29_AsStated ==
    HeaderRead =>
        /\ \A c1, c2 \in DOMAIN normalizedHeaders :
              normalizedHeaders[c1] = normalizedHeaders[c2] => c1 = c2
        /\ \A i \in DOMAIN csvRows : \A c \in DOMAIN normalizedHeaders :
              csvRows[i][normalizedHeaders[c]] = CellAt(i, c)

-----------------------------------------------------------------------------
(* Claim about the diagnostics after the rows are normalized *)

\* the calendar days of the months the dates of the rows lie in
DaysAround ==
    {toIsoDateFromParts(ym[1], ym[2], d) :
        ym \in {<<2023, 12>>, <<2024, 1>>, <<2024, 2>>, <<2024, 3>>, <<2024, 9>>},
        d \in 1..31} \cap {s \in {toIsoDateFromParts(ym[1], ym[2], d) :
                                     ym \in {<<2023, 12>>, <<2024, 1>>, <<2024, 2>>, <<2024, 3>>, <<2024, 9>>},
                                     d \in 1..31} :
                              IsCalendarDay(DigitsToNum(SubSeq(s, 1, 4)), DigitsToNum(SubSeq(s, 6, 7)),
                                            DigitsToNum(SubSeq(s, 9, 10)))}

\* the dates of the result
ResultDates == {normResult.rows[j].date_iso : j \in DOMAIN normResult.rows}

\* the calendar days strictly between the first and the last date that no row has
AbsentDays ==
    {s \in DaysAround \ ResultDates :
        /\ \E lo \in ResultDates : DayNumber(lo) < DayNumber(s)
        /\ \E hi \in ResultDates : DayNumber(s) < DayNumber(hi)}

GapWarnings ==
    {k \in DOMAIN normResult.warnings : normResult.warnings[k].text = "Detected missing dates"}

FewDatesWarnings ==
    {k \in DOMAIN normResult.warnings : normResult.warnings[k].text = "Only few distinct dates found"}

\* the days of a preview are the first absent days, in ascending order
IsPreviewOf(preview, absent) ==
    /\ Len(preview) = (IF Cardinality(absent) < PreviewLength THEN Cardinality(absent) ELSE PreviewLength)
    /\ \A j \in DOMAIN preview : preview[j] \in absent
    /\ \A j \in 1..(Len(preview) - 1) : DayNumber(preview[j]) < DayNumber(preview[j + 1])
    /\ \A s \in absent : (\A j \in DOMAIN preview : preview[j] # s)
                             => \A j \in DOMAIN preview : DayNumber(preview[j]) < DayNumber(s)

\* the loop passed every row and the values are of one family at most
RowsNormalized == npc \in {"scan", "done"} /\ rowIdx > Len(rows) /\ Cardinality(effectiveFamilies) <= 1

\* what the result of a run whose rows are normalized holds
GapDiagnosticsRight ==
    (NormDone /\ RowsNormalized) =>
        /\ normResult.ok
        /\ Cardinality(GapWarnings) = (IF AbsentDays # {} THEN 1 ELSE 0)
        /\ \A k \in GapWarnings :
              /\ normResult.warnings[k].count = Cardinality(AbsentDays)
              /\ IsPreviewOf(normResult.warnings[k].preview, AbsentDays)
        /\ Cardinality(FewDatesWarnings) = (IF Cardinality(ResultDates) < MinDistinctDates THEN 1 ELSE 0)

\* the while loop of the scan has ended: the cursor is not before the last date
ScanOver ==
    \/ NormDone
    \/ npc = "scan" /\ \E sorted \in {sortedDates} :
                            Len(sorted) >= 2 => \E max \in {sorted[Len(sorted)]} : ~StrLess(cursor, max)

\* C28: the scan of the days between the first and the last date ends; a run whose rows were all normalized ends in success,
\* with the gap warning if and only if a calendar day strictly between the
\* first and the last date is absent, the warning counting the absent days and
\* quoting the first 5 at most in ascending order, and with the warning about
\* fewer than 7 distinct dates when that is so
C28_GapDiagnostics == [](GapDiagnosticsRight) /\ ((npc = "scan") ~> ScanOver)

\* a successful run with more than 5 absent days between its dates
C28_Witness ==
    /\ NormOk
    /\ Cardinality(AbsentDays) > PreviewLength
    /\ \E k \in GapWarnings : Len(normResult.warnings[k].preview) = PreviewLength

-----------------------------------------------------------------------------
(* metricsCalculator.js: arithmetic on exact fractions *)

Neg(a) == [k |-> "num", n |-> -a.n, d |-> a.d]

\* a - b on finite numbers
Minus(a, b) == Plus(a, Neg(b))

\* a * b on finite numbers
Times(a, b) == Quot(a.n * b.n, a.d * b.d)

\* a / b on finite numbers, b not 0
Over(a, b) ==
    IF b.n > 0 THEN Quot(a.n * b.d, a.d * b.n) ELSE Quot(-(a.n * b.d), a.d * (-b.n))

\* a < b on finite numbers
Less(a, b) == a.n * b.d < b.n * a.d

\* floor of the quotient n / d for d > 0
FloorDiv(n, d) == IF n >= 0 THEN n \div d ELSE -((-n + d - 1) \div d)

\* Math.floor, Math.ceil and Math.round (half up) of a finite number
MathFloor(a) == FloorDiv(a.n, a.d)
MathCeil(a) == -FloorDiv(-a.n, a.d)
MathRound(a) == FloorDiv(2 * a.n + a.d, 2 * a.d)

\* Math.round(value * scale) / per
RoundTo(value, scale, per) == Quot(MathRound(Times(value, Num(scale))), per)

-----------------------------------------------------------------------------
(* metricsCalculator.js: the functions *)

\* percentile(sortedValues, p) for 0 < p < 1
percentile(sortedValues, p) ==
    IF Len(sortedValues) = 0 THEN Null
    ELSE LET idx == Times(Num(Len(sortedValues) - 1), p)
             lo == MathFloor(idx)
             hi == MathCeil(idx)
             w == Minus(idx, Num(lo))
         IN IF lo = hi THEN sortedValues[lo + 1]
            ELSE Plus(Times(sortedValues[lo + 1], Minus(Num(1), w)),
                      Times(sortedValues[hi + 1], w))

\* values.filter((v) => Number.isFinite(v))
RECURSIVE FiniteOnly(_)
FiniteOnly(values) ==
    IF values = <<>> THEN <<>>
    ELSE IF IsFinite(Head(values)) THEN <<Head(values)>> \o FiniteOnly(Tail(values))
    ELSE FiniteOnly(Tail(values))

\* values.reduce((a, b) => a + b, 0)
RECURSIVE SumOf(_)
SumOf(values) ==
    IF values = <<>> THEN Num(0)
    ELSE Plus(SumOf(SubSeq(values, 1, Len(values) - 1)), values[Len(values)])

\* a variant of safeAverage that answers 0 for an empty list
safeAverage_ZeroWhenEmpty(values) ==
    LET finite == FiniteOnly(values)
    IN IF Len(finite) = 0 THEN Num(0) ELSE Over(SumOf(finite), Num(Len(finite)))

safeAverage(values) ==
    LET finite == FiniteOnly(values)
    IN IF Len(finite) = 0 THEN Null ELSE Over(SumOf(finite), Num(Len(finite)))

\* a variant of MovingFrom that lets the oldest value leave the window one row late
RECURSIVE MovingFrom_LateLeave(_, _, _, _, _)
MovingFrom_LateLeave(values, windowSize, i, sum, out) ==
    IF i >= Len(values) THEN out
    ELSE LET added == Plus(sum, values[i + 1])
             kept == IF i > windowSize THEN Minus(added, values[i - windowSize + 1]) ELSE added
         IN MovingFrom_LateLeave(values, windowSize, i + 1, kept,
                IF i >= windowSize - 1
                THEN [out EXCEPT ![i + 1] = Over(kept, Num(windowSize))]
                ELSE out)

\* the loop of computeMovingAverage from index i on, with the running sum and out
RECURSIVE MovingFrom(_, _, _, _, _)
MovingFrom(values, windowSize, i, sum, out) ==
    IF i >= Len(values) THEN out
    ELSE LET added == Plus(sum, values[i + 1])
             kept == IF i >= windowSize THEN Minus(added, values[i - windowSize + 1]) ELSE added
         IN MovingFrom(values, windowSize, i + 1, kept,
                IF i >= windowSize - 1
                THEN [out EXCEPT ![i + 1] = Over(kept, Num(windowSize))]
                ELSE out)

computeMovingAverage(values, windowSize) ==
    IF Len(values) < windowSize THEN [j \in 1..Len(values) |-> Null]
    ELSE MovingFrom(values, windowSize, 0, Num(0), [j \in 1..Len(values) |-> Null])

\* the window of the moving average and the shortest dataset without a warning
WindowSize == 7

\* options.rainThresholdMm when finite, else 1
DefaultRainThreshold == 1
rainThreshold == IF IsFinite(rainThresholdMm) THEN rainThresholdMm ELSE Num(DefaultRainThreshold)

\* the two percentiles of the temperature buckets
LowerRank == Quot(1, 4)
UpperRank == Quot(3, 4)

\* rows.map((r) => r.temperature_c).filter(Number.isFinite).sort((a, b) => a - b)
RECURSIVE InsertNumber(_, _)
InsertNumber(sorted, v) ==
    IF sorted = <<>> THEN <<v>>
    ELSE IF Less(v, sorted[Len(sorted)])
         THEN InsertNumber(SubSeq(sorted, 1, Len(sorted) - 1), v) \o <<sorted[Len(sorted)]>>
         ELSE sorted \o <<v>>

RECURSIVE SortNumbers(_)
SortNumbers(values) ==
    IF values = <<>> THEN <<>>
    ELSE InsertNumber(SortNumbers(SubSeq(values, 1, Len(values) - 1)), values[Len(values)])

TemperaturesOf(rs) == SortNumbers(FiniteOnly([j \in 1..Len(rs) |-> rs[j].temperature_c]))

\* 'Dataset is shorter than 7 days; some metrics may be unstable.'
ShortDatasetWarning == [text |-> "Dataset is shorter than 7 days"]

\* Number.isFinite(rainfall) ? rainfall > rainThresholdMm : false
IsRainy(r, threshold) ==
    LET rainfall == NumberOf(r.rainfall_mm)
    IN IF IsFinite(rainfall) THEN Less(threshold, rainfall) ELSE FALSE

\* a variant of TempCategory that counts a temperature equal to p25 as cold
TempCategory_ColdAtP25(r, low, high) ==
    IF IsFinite(r.temperature_c) /\ low # Null /\ high # Null
    THEN IF ~Less(low, r.temperature_c) THEN "cold"
         ELSE IF Less(high, r.temperature_c) THEN "hot"
         ELSE "moderate"
    ELSE "null"

\* let tempCategory of the row
TempCategory(r, low, high) ==
    IF IsFinite(r.temperature_c) /\ low # Null /\ high # Null
    THEN IF Less(r.temperature_c, low) THEN "cold"
         ELSE IF Less(high, r.temperature_c) THEN "hot"
         ELSE "moderate"
    ELSE "null"

\* parseIsoToDate(r.date_iso).getDay(): Sunday is 0
DayOfWeek(dateIso) == (DayNumber(dateIso) + 3) % 7

\* the object returned for one row by rows.map(...)
EnrichedRow(r, idx, threshold, low, high, averages) ==
    [date_iso |-> r.date_iso,
     total_orders |-> r.total_orders,
     temperature_c |-> r.temperature_c,
     rainfall_mm |-> r.rainfall_mm,
     humidity_pct |-> r.humidity_pct,
     imputed_weather |-> r.imputed_weather,
     is_rainy |-> IsRainy(r, threshold),
     day_of_week |-> DayOfWeek(r.date_iso),
     temp_category |-> TempCategory(r, low, high),
     moving_avg_7 |-> averages[idx]]

\* enriched.filter(keep).map((r) => r.total_orders)
RECURSIVE OrdersWhere(_, _)
OrdersWhere(rs, rainy) ==
    IF rs = <<>> THEN <<>>
    ELSE IF Head(rs).is_rainy = rainy
         THEN <<Head(rs).total_orders>> \o OrdersWhere(Tail(rs), rainy)
         ELSE OrdersWhere(Tail(rs), rainy)

\* let percentIncrease
PercentIncrease(rainyDayAvg, nonRainyDayAvg) ==
    IF nonRainyDayAvg # Null /\ nonRainyDayAvg # Num(0) /\ rainyDayAvg # Null
    THEN Over(Minus(rainyDayAvg, nonRainyDayAvg), nonRainyDayAvg)
    ELSE Null

\* value === null ? null : Math.round(value * scale) / per
RoundedOrNull(value, scale, per) == IF value = Null THEN Null ELSE RoundTo(value, scale, per)

\* enriched.reduce((sum, r) => sum + (Number.isFinite(r.total_orders) ? Number(r.total_orders) : 0), 0)
TotalOf(rs) == SumOf(FiniteOnly([j \in 1..Len(rs) |-> rs[j].total_orders]))

\* enriched.reduce((n, r) => n + (r.imputed_weather ? 1 : 0), 0)
ImputedCount(rs) == Cardinality({j \in 1..Len(rs) : rs[j].imputed_weather})

\* const kpis, without the fields built from the extreme days, the weekday
\* buckets and the correlation
KpisOf(rs) ==
    LET rainyOrders == OrdersWhere(rs, TRUE)
        nonRainyOrders == OrdersWhere(rs, FALSE)
        rainyDayAvg == safeAverage(rainyOrders)
        nonRainyDayAvg == safeAverage(nonRainyOrders)
        percentIncrease == PercentIncrease(rainyDayAvg, nonRainyDayAvg)
    IN [totalOrders |-> MathRound(TotalOf(rs)),
        avgOrdersPerDay |-> RoundTo(Over(TotalOf(rs), Num(Len(rs))), 100, 100),
        rainyDayAvg |-> RoundedOrNull(rainyDayAvg, 100, 100),
        nonRainyDayAvg |-> RoundedOrNull(nonRainyDayAvg, 100, 100),
        percentIncrease |-> RoundedOrNull(percentIncrease, 10000, 100),
        rainyDays |-> Len(rainyOrders),
        nonRainyDays |-> Len(nonRainyOrders),
        imputedWeatherPct |-> RoundTo(Quot(ImputedCount(rs), Len(rs)), 10000, 100)]

\* const chartData, without the weekday buckets and the correlation
ChartDataOf(rs, kpis, low, high) ==
    [ordersOverTime |-> [j \in 1..Len(rs) |->
                            [date_iso |-> rs[j].date_iso,
                             total_orders |-> rs[j].total_orders,
                             is_rainy |-> rs[j].is_rainy,
                             moving_avg_7 |-> rs[j].moving_avg_7]],
     weatherImpact |-> [rainyAvg |-> kpis.rainyDayAvg,
                        nonRainyAvg |-> kpis.nonRainyDayAvg,
                        percentDifference |-> kpis.percentIncrease,
                        rainyDays |-> kpis.rainyDays,
                        nonRainyDays |-> kpis.nonRainyDays],
     tempCorrelation |-> [j \in 1..Len(rs) |->
                            [date_iso |-> rs[j].date_iso,
                             temperature_c |-> rs[j].temperature_c,
                             total_orders |-> rs[j].total_orders,
                             is_rainy |-> rs[j].is_rainy]],
     tempBuckets |-> [p25 |-> low, p75 |-> high]]

-----------------------------------------------------------------------------
(* Inputs of calculateMetricsAndCharts *)

\* longest mergedRows argument
MaxMetricRows == 8

\* the j-th date of the merged rows: the days run over the end of a month
MetricDay(j) == addDaysIso(<<"2", "0", "2", "4", "-", "0", "2", "-", "2", "5">>, j)

\* order counts of the merged rows, by position
OrderSeries ==
    {[j \in 1..MaxMetricRows + 1 |-> Num(base + ((j * step) % 5))] :
        base \in {0, 4}, step \in {0, 3}}

\* daily temperatures of the merged rows, by position: all equal, rising by
\* halves, repeating, and with days that have no temperature
TemperatureSeries ==
    {[j \in 1..MaxMetricRows + 1 |-> Num(20)],
     [j \in 1..MaxMetricRows + 1 |-> Quot(30 + j, 2)],
     [j \in 1..MaxMetricRows + 1 |-> Num(10 + ((j * 3) % 4))],
     [j \in 1..MaxMetricRows + 1 |-> IF j % 3 = 1 THEN Null ELSE Num(12 - j)],
     [j \in 1..MaxMetricRows + 1 |-> Null]}

\* daily rainfall of the merged rows, by position: dry, wet, at and over the
\* default threshold, and unknown
RainfallSeries ==
    {[j \in 1..MaxMetricRows + 1 |-> Num(0)],
     [j \in 1..MaxMetricRows + 1 |-> Num(5)],
     [j \in 1..MaxMetricRows + 1 |-> IF j % 2 = 1 THEN Num(1) ELSE Quot(3, 2)],
     [j \in 1..MaxMetricRows + 1 |-> IF j = 2 THEN Num(3) ELSE Null]}

RainThresholds == {NaN, Num(2)}

MergedRowAt(j, orders, temps, rain) ==
    [date_iso |-> MetricDay(j),
     total_orders |-> orders[j],
     temperature_c |-> temps[j],
     rainfall_mm |-> rain[j],
     humidity_pct |-> Null,
     imputed_weather |-> (j % 4 = 0)]

MetricsInit ==
    /\ LoaderIdle
    /\ ProxyIdle
    /\ RerunIdle
    /\ MergeIdle
    /\ NormIdle
    /\ CsvIdle
    /\ \E n \in 0..MaxMetricRows, orders \in OrderSeries, temps \in TemperatureSeries,
          rain \in RainfallSeries, latestFirst \in BOOLEAN :
          mergedRows = [j \in 1..n |->
                           MergedRowAt(IF latestFirst THEN n + 1 - j ELSE j, orders, temps, rain)]
    /\ rainThresholdMm \in RainThresholds
    /\ kpc = "start"
    /\ sortedRows = <<>>
    /\ temperatures = <<>>
    /\ p25 = Null
    /\ p75 = Null
    /\ metricWarnings = <<>>
    /\ movingAvg7 = <<>>
    /\ enriched = <<>>
    /\ metricsResult = [ok |-> FALSE]

-----------------------------------------------------------------------------
(* calculateMetricsAndCharts, step by step *)

\* if (!Array.isArray(mergedRows) || mergedRows.length === 0) return { ok: false, error }
ReturnNoMergedRows ==
    /\ kpc = "start"
    /\ Len(mergedRows) = 0
    /\ metricsResult' = [ok |-> FALSE, error |-> [code |-> "MERGE_NO_ROWS"]]
    /\ kpc' = "done"
    /\ UNCHANGED <<mergedRows, rainThresholdMm, sortedRows, temperatures, p25, p75,
                   metricWarnings, movingAvg7, enriched, mergeVars, normVars, csvVars, rerunVars, proxyVars, loaderVars>>

\* const rows = [...mergedRows].sort(...); const temperatures; const p25, p75; the warning
SortAndBucket ==
    /\ kpc = "start"
    /\ Len(mergedRows) # 0
    /\ \E sorted \in {SortByDate(mergedRows)} : \E temps \in {TemperaturesOf(sorted)} :
          /\ sortedRows' = sorted
          /\ temperatures' = temps
          /\ p25' = percentile(temps, LowerRank)
          /\ p75' = percentile(temps, UpperRank)
          /\ metricWarnings' = IF Len(sorted) < WindowSize THEN <<ShortDatasetWarning>> ELSE <<>>
    /\ kpc' = "average"
    /\ UNCHANGED <<mergedRows, rainThresholdMm, movingAvg7, enriched, metricsResult,
                   mergeVars, normVars, csvVars, rerunVars, proxyVars, loaderVars>>

\* const ordersSeries = rows.map((r) => Number(r.total_orders)); const movingAvg7
MovingAverage ==
    /\ kpc = "average"
    /\ movingAvg7' = computeMovingAverage(
                         [j \in 1..Len(sortedRows) |-> NumberOf(sortedRows[j].total_orders)],
                         WindowSize)
    /\ kpc' = "enrich"
    /\ UNCHANGED <<mergedRows, rainThresholdMm, sortedRows, temperatures, p25, p75,
                   metricWarnings, enriched, metricsResult, mergeVars, normVars, csvVars, rerunVars, proxyVars, loaderVars>>

\* const enriched = rows.map((r, idx) => ...)
Enrich ==
    /\ kpc = "enrich"
    /\ enriched' = [j \in 1..Len(sortedRows) |->
                       EnrichedRow(sortedRows[j], j, rainThreshold, p25, p75, movingAvg7)]
    /\ kpc' = "kpis"
    /\ UNCHANGED <<mergedRows, rainThresholdMm, sortedRows, temperatures, p25, p75,
                   metricWarnings, movingAvg7, metricsResult, mergeVars, normVars, csvVars, rerunVars, proxyVars, loaderVars>>

\* const kpis; const chartData; return { ok: true, kpis, chartData, warnings }
ReturnMetrics ==
    /\ kpc = "kpis"
    /\ \E kpis \in {KpisOf(enriched)} :
          metricsResult' = [ok |-> TRUE,
                            kpis |-> kpis,
                            chartData |-> ChartDataOf(enriched, kpis, p25, p75),
                            warnings |-> metricWarnings]
    /\ kpc' = "done"
    /\ UNCHANGED <<mergedRows, rainThresholdMm, sortedRows, temperatures, p25, p75,
                   metricWarnings, movingAvg7, enriched, mergeVars, normVars, csvVars, rerunVars, proxyVars, loaderVars>>

MetricsNext ==
    \/ ReturnNoMergedRows
    \/ SortAndBucket
    \/ MovingAverage
    \/ Enrich
    \/ ReturnMetrics

MetricsSpec == MetricsInit /\ [][MetricsNext]_vars

-----------------------------------------------------------------------------
(* Claims about calculateMetricsAndCharts *)

MetricsDone == kpc = "done"
MetricsOk == MetricsDone /\ metricsResult.ok

\* the rows of the result, in date order, as the charts receive them
OrdersOverTime == metricsResult.chartData.ordersOverTime

\* the sum of the order counts of the result's rows first..last
RECURSIVE OrdersBetween(_, _)
OrdersBetween(first, last) ==
    IF first > last THEN Num(0)
    ELSE Plus(OrdersBetween(first, last - 1), OrdersOverTime[last].total_orders)

\* C21: the 7-day trailing moving average of a row is null for the first six
\* rows of the date-sorted result, hence for every row of a result shorter
\* than 7 rows, and from the seventh row on it is the mean of the order
\* counts of exactly the 7 rows that end at that row.
C21_MovingAverage ==
    MetricsOk =>
        /\ Len(OrdersOverTime) = Len(mergedRows)
        /\ \A j \in 2..Len(OrdersOverTime) :
              StrLess(OrdersOverTime[j - 1].date_iso, OrdersOverTime[j].date_iso)
        /\ \A j \in 1..Len(OrdersOverTime) :
              /\ j < WindowSize => OrdersOverTime[j].moving_avg_7 = Null
              /\ j >= WindowSize =>
                    OrdersOverTime[j].moving_avg_7 =
                        Over(OrdersBetween(j - WindowSize + 1, j), Num(WindowSize))
              /\ enriched[j].moving_avg_7 = OrdersOverTime[j].moving_avg_7

\* a result of more than 7 rows whose first count has left the window and
\* whose windows do not all have the same mean
C21_Witness ==
    /\ MetricsOk
    /\ Len(OrdersOverTime) > WindowSize
    /\ OrdersOverTime[1].total_orders # Num(0)
    /\ OrdersOverTime[WindowSize].moving_avg_7 # OrdersOverTime[WindowSize + 1].moving_avg_7
    /\ OrdersOverTime[WindowSize + 1].moving_avg_7.d # 1

\* the rows of the result that are rainy (TRUE) or not (FALSE): rainfall is a
\* number over the threshold in use
Kpis == metricsResult.kpis
RainyRows == {j \in 1..Len(enriched) : enriched[j].is_rainy}
DryRows == {j \in 1..Len(enriched) : ~enriched[j].is_rainy}

RECURSIVE OrdersOn(_)
OrdersOn(S) ==
    IF S = {} THEN Num(0)
    ELSE LET j == CHOOSE x \in S : TRUE
         IN Plus(OrdersOn(S \ {j}), enriched[j].total_orders)

\* the mean order count of a non-empty set of rows
MeanOrders(S) == Over(OrdersOn(S), Num(Cardinality(S)))

\* v is x in hundredths, to the nearest hundredth (a half goes up)
IsHundredthsOf(v, x) ==
    /\ v # Null
    /\ 100 % v.d = 0
    /\ LET hundredths == (v.n * 100) \div v.d
       IN /\ ~Less(Times(x, Num(200)), Num(2 * hundredths - 1))
          /\ Less(Times(x, Num(200)), Num(2 * hundredths + 1))

RainSplitRight ==
    \A j \in 1..Len(enriched) :
        enriched[j].is_rainy <=>
            /\ sortedRows[j].rainfall_mm # Null
            /\ Less(rainThreshold, sortedRows[j].rainfall_mm)

PercentUndefined == RainyRows = {} \/ DryRows = {} \/ MeanOrders(DryRows) = Num(0)

AllDryResult ==
    /\ MetricsOk
    /\ RainyRows = {}
    /\ Kpis.nonRainyDayAvg # Null
    /\ Kpis.rainyDayAvg = Null
    /\ Kpis.percentIncrease = Null

\* the finite temperatures of the result's rows, as a bag: how often each occurs
TimesIn(list, v) == Cardinality({j \in 1..Len(list) : list[j] = v})

TemperaturesSorted ==
    /\ \A j \in 2..Len(temperatures) : ~Less(temperatures[j], temperatures[j - 1])
    /\ \A j \in 1..Len(temperatures) : IsFinite(temperatures[j])
    /\ \A j \in 1..Len(sortedRows) :
          IsFinite(sortedRows[j].temperature_c) =>
              TimesIn(temperatures, sortedRows[j].temperature_c) =
                  Cardinality({i \in 1..Len(sortedRows) :
                                  sortedRows[i].temperature_c = sortedRows[j].temperature_c})
    /\ Len(temperatures) =
          Cardinality({j \in 1..Len(sortedRows) : IsFinite(sortedRows[j].temperature_c)})

\* the value at fractional rank (n - 1) * quarters / 4 of the sorted
\* temperatures: the order statistic below it plus the fraction of the step to
\* the next one
AtRank(quarters) ==
    LET rank == (Len(temperatures) - 1) * quarters
        below == temperatures[(rank \div 4) + 1]
    IN IF rank % 4 = 0 THEN below
       ELSE Plus(below, Times(Quot(rank % 4, 4),
                              Minus(temperatures[(rank \div 4) + 2], below)))

TempBuckets == metricsResult.chartData.tempBuckets

\* C23: p25 and p75 are the values at fractional rank (n-1)*p of the sorted
\* finite temperatures, by linear interpolation, and p25 <= p75; a row with a
\* finite temperature is cold iff it is below p25, hot iff it is above p75 and
\* moderate otherwise, a row without one has no category; when all
\* temperatures are equal every such row is moderate.
C23_TemperatureBuckets ==
    MetricsOk =>
        /\ TemperaturesSorted
        /\ Len(temperatures) = 0 => TempBuckets.p25 = Null /\ TempBuckets.p75 = Null
        /\ Len(temperatures) > 0 =>
              /\ TempBuckets.p25 = AtRank(1)
              /\ TempBuckets.p75 = AtRank(3)
              /\ ~Less(TempBuckets.p75, TempBuckets.p25)
        /\ \A j \in 1..Len(enriched) :
              LET t == enriched[j].temperature_c
                  category == enriched[j].temp_category
              IN /\ t = sortedRows[j].temperature_c
                 /\ ~IsFinite(t) => category = "null"
                 /\ IsFinite(t) =>
                       /\ category \in {"cold", "moderate", "hot"}
                       /\ category = "cold" <=> Less(t, TempBuckets.p25)
                       /\ category = "hot" <=> Less(TempBuckets.p75, t)
                       /\ (\A i \in 1..Len(temperatures) : temperatures[i] = t)
                             => category = "moderate"

\* a result with a cold, a moderate and a hot row and a row without a
\* temperature, whose p25 lies between two of the temperatures
C23_Witness ==
    /\ MetricsOk
    /\ \A category \in {"cold", "moderate", "hot", "null"} :
          \E j \in 1..Len(enriched) : enriched[j].temp_category = category
    /\ \A i \in 1..Len(temperatures) : temperatures[i] # TempBuckets.p25

\* a result whose rows all have the same temperature
AllEqualTemperatures ==
    /\ MetricsOk
    /\ Len(temperatures) > 3
    /\ \A i \in 1..Len(temperatures) : temperatures[i] = temperatures[1]
    /\ \A j \in 1..Len(enriched) : enriched[j].temp_category = "moderate"

-----------------------------------------------------------------------------
(* Two calls of each stage on the same arguments.  The stages are synchronous *)
(* functions: one call is on the stack at a time and runs to its return, and  *)
(* the calls of the three stages come in any order.  The arguments are the    *)
(* caller's arrays, the same for both calls; every const and let of a         *)
(* function body is made anew by each call.                                   *)

\* how often each stage is called
Reruns == 2

\* a variant of FreshMergeLocals with one warnings list shared by all calls
FreshMergeLocals_SharedWarnings ==
    /\ mpc' = "aggregateOrders"
    /\ dailyOrders' = <<>>
    /\ weatherByDate' = EmptyMap
    /\ mergeIdx' = 0
    /\ merged' = <<>>
    /\ warnings' = warnings
    /\ mergeResult' = [ok |-> FALSE]

\* const warnings = []; const merged = []; ... of a call of mergeOrdersWithWeather
FreshMergeLocals ==
    /\ mpc' = "aggregateOrders"
    /\ dailyOrders' = <<>>
    /\ weatherByDate' = EmptyMap
    /\ mergeIdx' = 0
    /\ merged' = <<>>
    /\ warnings' = <<>>
    /\ mergeResult' = [ok |-> FALSE]

\* const warnings = []; const normalized = []; ... of a call of normalizeDatesInRows
FreshNormLocals ==
    /\ npc' = "loop"
    /\ rowIdx' = 1
    /\ families' = {}
    /\ normalized' = <<>>
    /\ droppedMissing' = 0
    /\ cursor' = <<>>
    /\ missing' = <<>>
    /\ normResult' = [ok |-> FALSE]

\* const warnings = []; ... of a call of calculateMetricsAndCharts
FreshMetricsLocals ==
    /\ kpc' = "start"
    /\ sortedRows' = <<>>
    /\ temperatures' = <<>>
    /\ p25' = Null
    /\ p75' = Null
    /\ metricWarnings' = <<>>
    /\ movingAvg7' = <<>>
    /\ enriched' = <<>>
    /\ metricsResult' = [ok |-> FALSE]

CanCall(f) == calling = "none" /\ Len(results[f]) < Reruns

CallNormalize ==
    /\ CanCall("normalize")
    /\ calling' = "normalize"
    /\ FreshNormLocals
    /\ UNCHANGED <<rows, onMissingDate, timezoneOffset, results, mergeVars, csvVars, metricsVars, proxyVars, loaderVars>>

CallMerge ==
    /\ CanCall("merge")
    /\ calling' = "merge"
    /\ FreshMergeLocals
    /\ UNCHANGED <<orderRows, weatherRows, optMaxGapDays, results, normVars, csvVars, metricsVars, proxyVars, loaderVars>>

CallMetrics ==
    /\ CanCall("metrics")
    /\ calling' = "metrics"
    /\ FreshMetricsLocals
    /\ UNCHANGED <<mergedRows, rainThresholdMm, results, mergeVars, normVars, csvVars, proxyVars, loaderVars>>

\* the caller receives what the call returns
Returns(f, returned) ==
    /\ calling = f
    /\ results' = [results EXCEPT ![f] = Append(@, returned)]
    /\ calling' = "none"
    /\ UNCHANGED <<mergeVars, normVars, csvVars, metricsVars, proxyVars, loaderVars>>

NormalizeReturns == npc = "done" /\ Returns("normalize", normResult)
MergeReturns == mpc = "done" /\ Returns("merge", mergeResult)
MetricsReturns == kpc = "done" /\ Returns("metrics", metricsResult)

\* the values of the rows given to normalizeDatesInRows
RerunValues ==
    { NullCell,
      toIsoDateFromParts(2024, 2, 13),
      toIsoDateFromParts(2024, 2, 16),
      SlashStr(13, 2, 2024),
      SlashStr(1, 2, 2024),
      SlashStr(31, 2, 2024),
      <<"f", "o", "o">> }

\* the arguments of the calls of mergeOrdersWithWeather
RerunOrderRows == [date_iso : {DayAt(1), DayAt(NumDays)}, total_orders : {Num(0), Num(1)}]
RerunWeather ==
    { <<>>,
      <<WeatherRowOn(DayAt(1), [temperature_c |-> Num(21), rainfall_mm |-> Num(2),
                                humidity_pct |-> Num(60)])>>,
      <<WeatherRowOn(DayAt(2), [temperature_c |-> Num(10), rainfall_mm |-> Num(0),
                                humidity_pct |-> Null])>> }

\* the arguments of the calls of calculateMetricsAndCharts
RerunMergedRows ==
    {[j \in 1..n |-> MergedRowAt(IF latestFirst THEN n + 1 - j ELSE j,
                                 [i \in 1..MaxMetricRows + 1 |-> Num(4 + ((i * 3) % 5))],
                                 [i \in 1..MaxMetricRows + 1 |->
                                     IF i % 3 = 1 THEN Null ELSE Num(12 - i)],
                                 rain)] :
        n \in {0, 3, MaxMetricRows}, latestFirst \in BOOLEAN, rain \in RainfallSeries}

\* one stage is given each of its arguments in turn, the other two a fixed one
RerunInit ==
    /\ LoaderIdle
    /\ ProxyIdle
    /\ CsvIdle
    /\ calling = "none"
    /\ results = [f \in Stages |-> <<>>]
    /\ \E subject \in Stages :
          /\ IF subject = "normalize"
             THEN /\ rows \in [1..2 -> [date : RerunValues]]
                  /\ onMissingDate \in {"error", "drop"}
             ELSE /\ rows = RowsOf({toIsoDateFromParts(2024, 2, 13),
                                    toIsoDateFromParts(2024, 2, 16)})
                  /\ onMissingDate = "drop"
          /\ IF subject = "merge"
             THEN /\ orderRows \in [1..2 -> RerunOrderRows]
                  /\ weatherRows \in RerunWeather
                  /\ optMaxGapDays \in GapOptions
             ELSE /\ orderRows = [j \in 1..2 |->
                                     [date_iso |-> DayAt(1 + (j - 1) * (NumDays - 1)),
                                      total_orders |-> Num(1)]]
                  /\ weatherRows = <<WeatherRowOn(DayAt(1),
                                        [temperature_c |-> Num(21), rainfall_mm |-> Num(2),
                                         humidity_pct |-> Num(60)])>>
                  /\ optMaxGapDays = NaN
          /\ IF subject = "metrics"
             THEN /\ mergedRows \in RerunMergedRows
                  /\ rainThresholdMm \in RainThresholds
             ELSE /\ mergedRows \in {r \in RerunMergedRows : Len(r) = 3 /\ r[1].rainfall_mm = Num(5)
                                        /\ StrLess(r[2].date_iso, r[1].date_iso)}
                  /\ rainThresholdMm = NaN
    /\ timezoneOffset = 0
    /\ npc = "idle"
    /\ rowIdx = 0
    /\ families = {}
    /\ normalized = <<>>
    /\ droppedMissing = 0
    /\ cursor = <<>>
    /\ missing = <<>>
    /\ normResult = [ok |-> FALSE]
    /\ mpc = "idle"
    /\ dailyOrders = <<>>
    /\ weatherByDate = EmptyMap
    /\ mergeIdx = 0
    /\ merged = <<>>
    /\ warnings = <<>>
    /\ mergeResult = [ok |-> FALSE]
    /\ kpc = "idle"
    /\ sortedRows = <<>>
    /\ temperatures = <<>>
    /\ p25 = Null
    /\ p75 = Null
    /\ metricWarnings = <<>>
    /\ movingAvg7 = <<>>
    /\ enriched = <<>>
    /\ metricsResult = [ok |-> FALSE]

RerunNext ==
    \/ CallNormalize
    \/ NormNext
    \/ NormalizeReturns
    \/ CallMerge
    \/ MergeNext
    \/ MergeReturns
    \/ CallMetrics
    \/ MetricsNext
    \/ MetricsReturns

RerunSpec == RerunInit /\ [][RerunNext]_vars

-----------------------------------------------------------------------------
(* Claim about repeated runs *)

\* the arguments are as the caller made them
InputsKept ==
    /\ rows' = rows
    /\ onMissingDate' = onMissingDate
    /\ orderRows' = orderRows
    /\ weatherRows' = weatherRows
    /\ optMaxGapDays' = optMaxGapDays
    /\ mergedRows' = mergedRows
    /\ rainThresholdMm' = rainThresholdMm

\* every call of a stage has returned what its first call returned
ResultsAgree ==
    \A f \in Stages : \A j \in 1..Len(results[f]) : results[f][j] = results[f][1]

-----------------------------------------------------------------------------
(* The weather proxy: weatherApiProxyPlugin (README.md) *)

\* const cacheTtlMs = 24 * 60 * 60 * 1000, in units of 12 hours
CacheTtl == 2

\* most dates one call may ask for
MaxDatesPerCall == 400

\* the bounds of safeConcurrency and the default of maxConcurrency
MinConcurrency == 1
MaxConcurrency == 6
DefaultConcurrency == 3

\* `${String(q).trim().toLowerCase()}|${String(dt).trim()}`
cacheKey(q, dt) == <<toLowerCase(Trim(q)), Trim(dt)>>

NoRow == [date |-> <<>>]

\* a variant of getCached that never lets an entry expire
getCached_NoExpiry(q, dt) ==
    IF cacheKey(q, dt) \notin DOMAIN cache THEN NoRow ELSE cache[cacheKey(q, dt)].row

\* getCached(q, dt): the row, or null for no entry and for an entry older than the TTL
getCached(q, dt) ==
    IF cacheKey(q, dt) \notin DOMAIN cache THEN NoRow
    ELSE IF clock - cache[cacheKey(q, dt)].ts > CacheTtl THEN NoRow
    ELSE cache[cacheKey(q, dt)].row

\* the entries getCached deletes while the dates are looked up: cache.delete(k)
LookedUpAndExpired(q, dates) ==
    {k \in DOMAIN cache :
        /\ \E j \in 1..Len(dates) : k = cacheKey(q, dates[j])
        /\ clock - cache[k].ts > CacheTtl}

\* setCached(q, dt, row)
setCached(q, dt, row) ==
    [k \in DOMAIN cache \cup {cacheKey(q, dt)} |->
        IF k = cacheKey(q, dt) THEN [ts |-> clock, row |-> row] ELSE cache[k]]

\* Array.from(new Set(dates.map((d) => String(d ?? '').trim()).filter(Boolean)))
RECURSIVE CleanedFrom(_, _)
CleanedFrom(dates, seen) ==
    IF dates = <<>> THEN seen
    ELSE LET d == Trim(Head(dates))
         IN CleanedFrom(Tail(dates),
                IF d = <<>> \/ \E j \in 1..Len(seen) : seen[j] = d THEN seen
                ELSE Append(seen, d))

cleanedDates(dates) == CleanedFrom(dates, <<>>)

\* Number.isFinite(body?.maxConcurrency) ? body.maxConcurrency : 3, then
\* Math.min(6, Math.max(1, Math.floor(maxConcurrency)))
safeConcurrency(req) ==
    LET maxConcurrency ==
            IF IsFinite(req.maxConcurrency) THEN MathFloor(req.maxConcurrency)
            ELSE DefaultConcurrency
        atLeast == IF maxConcurrency < MinConcurrency THEN MinConcurrency ELSE maxConcurrency
    IN IF atLeast > MaxConcurrency THEN MaxConcurrency ELSE atLeast

\* the cached and the missing dates of the loop over cleanedDates
RECURSIVE SelectDates(_, _, _)
SelectDates(q, dates, hit) ==
    IF dates = <<>> THEN <<>>
    ELSE IF (getCached(q, Head(dates)) # NoRow) = hit
         THEN <<Head(dates)>> \o SelectDates(q, Tail(dates), hit)
         ELSE SelectDates(q, Tail(dates), hit)

\* the response handler writes without fetching, or none
NoError == [status |-> 0, code |-> "none"]
RequestError(req) ==
    IF req.method # "POST" THEN [status |-> 405, code |-> "METHOD_NOT_ALLOWED"]
    ELSE IF ~req.keySet THEN [status |-> 500, code |-> "WEATHERAPI_KEY_MISSING"]
    ELSE IF req.q = <<>> \/ Len(req.dates) = 0 THEN [status |-> 400, code |-> "BAD_REQUEST"]
    ELSE IF Len(cleanedDates(req.dates)) = 0 THEN [status |-> 400, code |-> "BAD_REQUEST"]
    ELSE IF Len(cleanedDates(req.dates)) > MaxDatesPerCall
         THEN [status |-> 413, code |-> "TOO_MANY_DATES"]
    ELSE NoError

\* the errors fetchWeatherDay returns for one date
FetchErrors == {"WEATHERAPI_TIMEOUT", "WEATHERAPI_HTTP_ERROR"}

-----------------------------------------------------------------------------
(* Requests to the proxy *)

\* requests handled one after the other
MaxRequests == 2
\* how far the clock runs, in units of 12 hours
MaxClock == 3

DateA == toIsoDateFromParts(2024, 2, 13)
DateB == toIsoDateFromParts(2024, 2, 14)
DateC == toIsoDateFromParts(2024, 2, 15)

BulkRequest(q, dates, maxConcurrency, delayMs) ==
    [method |-> "POST", keySet |-> TRUE, q |-> q, dates |-> dates,
     maxConcurrency |-> maxConcurrency, delayMs |-> delayMs]

Requests ==
    { BulkRequest(Delhi, <<DateA, <<" ">> \o DateA \o <<" ">>, DateB>>, NaN, 0),
      BulkRequest(toLowerCase(Delhi), <<DateB, DateC>>, Num(7), 0),
      BulkRequest(Delhi, <<DateB, <<>>, DateA, DateC>>, Num(0), 1),
      BulkRequest(Delhi, <<DateA, DateB, DateC>>, Quot(5, 2), 1),
      BulkRequest(Delhi, <<<<>>, <<" ">>>>, NaN, 0),
      BulkRequest(Delhi, <<>>, NaN, 0),
      BulkRequest(<<>>, <<DateA>>, NaN, 0),
      [BulkRequest(Delhi, <<DateA>>, NaN, 0) EXCEPT !.method = "GET"],
      [BulkRequest(Delhi, <<DateA>>, NaN, 0) EXCEPT !.keySet = FALSE] }

ProxyInit ==
    /\ LoaderIdle
    /\ MergeIdle
    /\ NormIdle
    /\ CsvIdle
    /\ MetricsIdle
    /\ RerunIdle
    /\ ProxyIdle

-----------------------------------------------------------------------------
(* handler, step by step *)

RunnerIds == DOMAIN runners
Settled == \A r \in RunnerIds : runners[r].at \in {"done", "threw"}
CanReceive == hpc \in {"idle", "responded"} /\ Settled /\ served < MaxRequests

\* a request that is answered before any date is looked up
Reject ==
    /\ CanReceive
    /\ \E req \in Requests :
          /\ RequestError(req) # NoError
          /\ request' = req
          /\ response' = [status |-> RequestError(req).status, ok |-> FALSE,
                          code |-> RequestError(req).code]
    /\ served' = served + 1
    /\ hpc' = "responded"
    /\ toFetch' = <<>>
    /\ nextIdx' = 0
    /\ runners' = <<>>
    /\ bulkRows' = <<>>
    /\ failures' = <<>>
    /\ handed' = <<>>
    /\ UNCHANGED <<cache, clock, mergeVars, normVars, csvVars, metricsVars, rerunVars, loaderVars>>

\* the loop over cleanedDates; rows.push(...cachedRows); runWithConcurrency starts its runners
Accept ==
    /\ CanReceive
    /\ \E req \in Requests :
          /\ RequestError(req) = NoError
          /\ request' = req
          /\ \E cleaned \in {cleanedDates(req.dates)} :
                /\ bulkRows' = [j \in 1..Len(SelectDates(req.q, cleaned, TRUE)) |->
                                   getCached(req.q, SelectDates(req.q, cleaned, TRUE)[j])]
                /\ toFetch' = SelectDates(req.q, cleaned, FALSE)
                /\ cache' = [k \in DOMAIN cache \ LookedUpAndExpired(req.q, cleaned) |-> cache[k]]
          /\ runners' = [r \in 1..safeConcurrency(req) |-> [at |-> "loop", item |-> 0]]
    /\ served' = served + 1
    /\ hpc' = "running"
    /\ nextIdx' = 0
    /\ failures' = <<>>
    /\ handed' = <<>>
    /\ response' = NoResponse
    /\ UNCHANGED <<clock, mergeVars, normVars, csvVars, metricsVars, rerunVars, loaderVars>>

\* while (idx < items.length) { const current = idx; idx += 1; worker(items[current], current)
Take(r) ==
    /\ runners[r].at = "loop"
    /\ nextIdx < Len(toFetch)
    /\ runners' = [runners EXCEPT ![r] = [at |-> "fetch", item |-> nextIdx]]
    /\ nextIdx' = nextIdx + 1
    /\ handed' = Append(handed, toFetch[nextIdx + 1])
    /\ UNCHANGED <<cache, clock, served, hpc, request, toFetch, bulkRows, failures, response,
                   mergeVars, normVars, csvVars, metricsVars, rerunVars, loaderVars>>

\* the loop test of a runner fails: the runner's promise resolves
Exit(r) ==
    /\ runners[r].at = "loop"
    /\ nextIdx >= Len(toFetch)
    /\ runners' = [runners EXCEPT ![r] = [at |-> "done", item |-> 0]]
    /\ UNCHANGED <<cache, clock, served, hpc, request, toFetch, nextIdx, bulkRows, failures,
                   handed, response, mergeVars, normVars, csvVars, metricsVars, rerunVars, loaderVars>>

\* if (delayMs > 0 && i < toFetch.length - 1) await sleep(delayMs)
AfterWorker(r) ==
    IF request.delayMs > 0 /\ runners[r].item < Len(toFetch) - 1
    THEN [at |-> "sleep", item |-> runners[r].item]
    ELSE [at |-> "loop", item |-> 0]

\* fetchWeatherDay returns { ok: true, row }: rows.push(result.row); setCached(q, dt, result.row)
FetchOk(r) ==
    /\ runners[r].at = "fetch"
    /\ \E dt \in {toFetch[runners[r].item + 1]} :
          /\ bulkRows' = Append(bulkRows, [date |-> dt])
          /\ cache' = setCached(request.q, dt, [date |-> dt])
    /\ runners' = [runners EXCEPT ![r] = AfterWorker(r)]
    /\ UNCHANGED <<clock, served, hpc, request, toFetch, nextIdx, failures, handed, response,
                   mergeVars, normVars, csvVars, metricsVars, rerunVars, loaderVars>>

\* fetchWeatherDay returns { ok: false, error }: failures.push({ dt, error })
FetchFails(r) ==
    /\ runners[r].at = "fetch"
    /\ \E code \in FetchErrors :
          failures' = Append(failures, [dt |-> toFetch[runners[r].item + 1], error |-> code])
    /\ runners' = [runners EXCEPT ![r] = AfterWorker(r)]
    /\ UNCHANGED <<cache, clock, served, hpc, request, toFetch, nextIdx, bulkRows, handed,
                   response, mergeVars, normVars, csvVars, metricsVars, rerunVars, loaderVars>>

\* a variant of FetchThrows in which fetchWeatherDay catches the error of the
\* body and returns a failure for the date
FetchThrows_Caught(r) ==
    /\ runners[r].at = "fetch"
    /\ failures' = Append(failures, [dt |-> toFetch[runners[r].item + 1],
                                     error |-> "WEATHERAPI_BAD_RESPONSE"])
    /\ runners' = [runners EXCEPT ![r] = AfterWorker(r)]
    /\ UNCHANGED <<cache, clock, served, hpc, request, toFetch, nextIdx, bulkRows, handed,
                   response, mergeVars, normVars, csvVars, metricsVars, rerunVars, loaderVars>>

\* await res.json() rejects in fetchWeatherDay (the body of a 200 answer is not
\* JSON, or the connection breaks while it is read): the worker and its runner
\* reject, Promise.all rejects, and the catch of handler answers 500
FetchThrows(r) ==
    /\ runners[r].at = "fetch"
    /\ runners' = [runners EXCEPT ![r] = [at |-> "threw", item |-> runners[r].item]]
    /\ IF hpc = "running"
       THEN /\ response' = [status |-> 500, ok |-> FALSE, code |-> "SERVER_ERROR"]
            /\ hpc' = "responded"
       ELSE UNCHANGED <<response, hpc, loaderVars>>
    /\ UNCHANGED <<cache, clock, served, request, toFetch, nextIdx, bulkRows, failures, handed,
                   mergeVars, normVars, csvVars, metricsVars, rerunVars, loaderVars>>

\* the sleep after a worker ends
Wake(r) ==
    /\ runners[r].at = "sleep"
    /\ runners' = [runners EXCEPT ![r] = [at |-> "loop", item |-> 0]]
    /\ UNCHANGED <<cache, clock, served, hpc, request, toFetch, nextIdx, bulkRows, failures,
                   handed, response, mergeVars, normVars, csvVars, metricsVars, rerunVars, loaderVars>>

\* await Promise.all(runners) resolves: res.end(JSON.stringify({ ok: true, rows, failures }))
Respond ==
    /\ hpc = "running"
    /\ \A r \in RunnerIds : runners[r].at = "done"
    /\ response' = [status |-> IF Len(failures) # 0 THEN 207 ELSE 200, ok |-> TRUE,
                    rows |-> bulkRows, failures |-> failures]
    /\ hpc' = "responded"
    /\ UNCHANGED <<cache, clock, served, request, toFetch, nextIdx, runners, bulkRows, failures,
                   handed, mergeVars, normVars, csvVars, metricsVars, rerunVars, loaderVars>>

\* twelve hours pass
Tick ==
    /\ clock < MaxClock
    /\ clock' = clock + 1
    /\ UNCHANGED <<cache, served, hpc, request, toFetch, nextIdx, runners, bulkRows, failures,
                   handed, response, mergeVars, normVars, csvVars, metricsVars, rerunVars, loaderVars>>

ProxyNext ==
    \/ Reject
    \/ Accept
    \/ \E r \in RunnerIds : Take(r)
    \/ \E r \in RunnerIds : Exit(r)
    \/ \E r \in RunnerIds : FetchOk(r)
    \/ \E r \in RunnerIds : FetchFails(r)
    \/ \E r \in RunnerIds : FetchThrows(r)
    \/ \E r \in RunnerIds : Wake(r)
    \/ Respond
    \/ Tick

ProxySpec == ProxyInit /\ [][ProxyNext]_vars

-----------------------------------------------------------------------------
(* Claims about the weather proxy *)

Accepted == hpc # "idle" /\ RequestError(request) = NoError
Answered == response # NoResponse

\* the fetches in flight: workers that wait for fetchWeatherDay
InFlight == Cardinality({r \in RunnerIds : runners[r].at = "fetch"})

HandedOnce == \A i, j \in 1..Len(handed) : handed[i] = handed[j] => i = j
AllHanded == {handed[j] : j \in 1..Len(handed)} = {toFetch[j] : j \in 1..Len(toFetch)}

\* C26 as stated: while a bulk request is handled every date to fetch is given
\* to the worker exactly once, never more than safeConcurrency fetches are in
\* flight, with safeConcurrency the requested maxConcurrency clamped to 1..6,
\* and the response is written only after every fetch has completed.
C26_AsStated ==
    Accepted =>
        /\ Len(runners) = safeConcurrency(request)
        /\ safeConcurrency(request) \in MinConcurrency..MaxConcurrency
        /\ InFlight <= safeConcurrency(request)
        /\ HandedOnce
        /\ \A j \in 1..Len(handed) : handed[j] = toFetch[j]
        /\ Answered => AllHanded /\ InFlight = 0

\* an answer written while a fetch of the same request is still in flight
AnsweredWhileFetching == Accepted /\ Answered /\ InFlight > 0

\* an answer written after as many fetches as runners were in flight at once
PoolWasFull ==
    /\ Accepted
    /\ Answered
    /\ response.ok
    /\ Len(toFetch) > safeConcurrency(request)
    /\ Len(response.rows) > 0
    /\ Len(response.failures) > 0

\* the distinct non-empty dates of the request
RequestedDates == {Trim(request.dates[j]) : j \in 1..Len(request.dates)} \ {<<>>}

RowsFor(d) == Cardinality({j \in 1..Len(response.rows) : response.rows[j].date = d})
FailuresFor(d) == Cardinality({j \in 1..Len(response.failures) : response.failures[j].dt = d})

OkAnswer == Accepted /\ Answered /\ response.ok

PartitionRight ==
    OkAnswer =>
        /\ \A d \in RequestedDates : RowsFor(d) + FailuresFor(d) = 1
        /\ \A j \in 1..Len(response.rows) : response.rows[j].date \in RequestedDates
        /\ \A j \in 1..Len(response.failures) : response.failures[j].dt \in RequestedDates

\* an entry is put into the cache only by the step in which a fetch of its
\* date succeeds, with the row of that fetch and the time of the step
CacheWrittenOnSuccess ==
    \A k \in DOMAIN cache' :
        (k \notin DOMAIN cache \/ cache'[k] # cache[k]) =>
            /\ cache'[k].ts = clock
            /\ failures' = failures
            /\ bulkRows' = Append(bulkRows, cache'[k].row)
            /\ \E r \in RunnerIds :
                  /\ runners[r].at = "fetch"
                  /\ k = cacheKey(request.q, toFetch[runners[r].item + 1])
                  /\ cache'[k].row.date = toFetch[runners[r].item + 1]

\* the rows taken from the cache when a request is accepted are at most 24 hours old
FreshOnly ==
    (hpc # "running" /\ hpc' = "running") =>
        \A j \in 1..Len(bulkRows') :
            LET k == cacheKey(request'.q, bulkRows'[j].date)
            IN /\ k \in DOMAIN cache
               /\ cache[k].row = bulkRows'[j]
               /\ clock - cache[k].ts <= CacheTtl

\* C27: in an ok response every distinct non-empty requested date is in
\* exactly one of rows and failures, once, and nothing else is; the cache is
\* written only when a fetch succeeded; an entry older than 24 hours is never
\* served.
C27_RowsOrFailures == [](PartitionRight) /\ [][CacheWrittenOnSuccess /\ FreshOnly]_vars

\* the second request is answered with a row from the cache, a fetched row and
\* a failure, after an entry of the first request had expired or not
C27_Witness ==
    /\ OkAnswer
    /\ served = MaxRequests
    /\ \E j \in 1..Len(response.rows) :
          \A i \in 1..Len(handed) : handed[i] # response.rows[j].date
    /\ \E j \in 1..Len(response.rows) :
          \E i \in 1..Len(handed) : handed[i] = response.rows[j].date
    /\ Len(response.failures) > 0
    /\ Len(request.dates) > Cardinality(RequestedDates)

\* a date is fetched again because its entry is older than 24 hours
ExpiredRefetched ==
    /\ OkAnswer
    /\ served = MaxRequests
    /\ clock = MaxClock
    /\ \E j \in 1..Len(response.rows) : \E k \in DOMAIN cache :
          /\ k[2] = response.rows[j].date
          /\ cache[k].ts = MaxClock
    /\ \E k \in DOMAIN cache : cache[k].ts = 0

-----------------------------------------------------------------------------
(* components/DataLoader.jsx: onLoad, one run of the pipeline on the chosen *)
(* files.  A file is described by what reading, parsing and normalizing it  *)
(* give; a day is the rank of its date among the dates of the orders file.  *)

\* runs that are started
MaxRuns == 2
\* const batchSize = 30
BatchSize == 30
\* if (rows.length < 7) of calculateMetricsAndCharts
ShortDataset == 7

Mumbai == <<"M", "u", "m", "b", "a", "i">>
DelhiNcr == <<"d", "e", "l", "h", "i", " ", "n", "c", "r">>

\* function defaultLocationFromCity(city)
defaultLocationFromCity(city) ==
    LET s == Trim(city)
    IN IF s = <<>> THEN <<>>
       ELSE IF toLowerCase(s) = DelhiNcr THEN Delhi
       ELSE s

\* a stage that returned { ok: false, error } or threw, and one that went through
Failed(code, message) ==
    [ran |-> TRUE, ok |-> FALSE, error |-> [code |-> code, message |-> message],
     warnings |-> <<>>, days |-> {}]
WentThrough(warns, days) ==
    [ran |-> TRUE, ok |-> TRUE, error |-> NoAppError, warnings |-> warns, days |-> days]

\* one warning of a stage about a source
Warning(stage, of) == [stage |-> stage, of |-> of]

\* readFileAsText(file): reader.onload resolves, reader.onerror rejects with
\* new Error('FILE_READ_FAILED'), an object without code
readFileAsText(file) ==
    IF file.reads THEN WentThrough(<<>>, file.days) ELSE Failed("undefined", "FILE_READ_FAILED")

\* parseCsvText(text, { sourceName }) as onLoad sees it
ParseOutcome(file, of) ==
    IF file.parse # "ok" THEN Failed(file.parse, "csv")
    ELSE WentThrough(IF file.misshapen THEN <<Warning("parse", of)>> ELSE <<>>, file.days)

\* normalizeDatesInRows(rows, { sourceName }) as onLoad sees it
NormalizeOutcome(code, days, of) ==
    IF code # "ok" THEN Failed(code, "date")
    ELSE WentThrough(IF Cardinality(days) < MinDistinctDates
                THEN <<Warning("normalize", of)>> ELSE <<>>, days)

\* mergeOrdersWithWeather(normalizedOrders.rows, normalizedWeather.rows): a day of the
\* orders is kept when a day of the weather lies within maxGapDays of it
MergeOutcome(orderDays, weatherDays) ==
    LET kept == {d \in orderDays :
                    \E w \in weatherDays : d - w <= DefaultMaxGapDays /\ w - d <= DefaultMaxGapDays}
    IN IF kept = {} THEN Failed("MERGE_NO_ROWS", "Merge produced no rows")
       ELSE WentThrough(IF kept # orderDays THEN <<Warning("merge", "orders")>> ELSE <<>>, kept)

\* calculateMetricsAndCharts(merged.rows)
MetricsOutcome(days) ==
    IF days = {} THEN Failed("MERGE_NO_ROWS", "No merged data to calculate metrics")
    ELSE WentThrough(IF Cardinality(days) < ShortDataset THEN <<Warning("metrics", "merged")>> ELSE <<>>,
                days)

\* chunkArray(dates, batchSize): the dates of batch i (from 0) of the sorted dates
BatchOf(dates, i) == {d \in dates : Cardinality({e \in dates : e < d}) \div BatchSize = i}
NumBatches(dates) == (Cardinality(dates) + BatchSize - 1) \div BatchSize

\* what a bulk request can answer with ok: true, status 200 or 207: rows for all its
\* dates, for the first only, or for none, the others being its failures
BulkAnswers(batch) == {batch, {d \in batch : \A e \in batch : d <= e}, {}}

\* what fetchWeatherBulk throws: the AbortError of its timer, the TypeError of a
\* transport failure, the error of an error answer, or its own when there is no body
BulkThrows ==
    {[code |-> "20", message |-> "The operation was aborted"],
     [code |-> "undefined", message |-> "Failed to fetch"],
     [code |-> "SERVER_ERROR", message |-> "SyntaxError"],
     [code |-> "WEATHER_FETCH_FAILED", message |-> "Failed to fetch weather."]}

\* warnings: [...] of the setState of a run that succeeded
RunWarnings_MergeFirst(r) ==
    r.mergedOutcome.warnings \o r.parsedOrders.warnings \o r.parsedWeather.warnings
        \o r.normalizedOrders.warnings \o r.normalizedWeather.warnings \o r.metrics.warnings
RunWarnings(r) ==
    r.parsedOrders.warnings \o r.parsedWeather.warnings \o r.normalizedOrders.warnings
        \o r.normalizedWeather.warnings \o r.mergedOutcome.warnings \o r.metrics.warnings

\* const code = errorObj.code ?? 'UNKNOWN'; const message = errorObj.message
ErrorShown(err) ==
    [code |-> IF err.code = "undefined" THEN "UNKNOWN" ELSE err.code, message |-> err.message]

\* the files, locations and settings a user can choose
OrdersFileOf(reads, parse, normalize, n, misshapen, city) ==
    [present |-> TRUE, reads |-> reads, parse |-> parse, normalize |-> normalize,
     days |-> 1..n, misshapen |-> misshapen, city |-> city]
OrdersFiles ==
    {NoFile,
     OrdersFileOf(TRUE, "ok", "ok", BatchSize + 1, FALSE, <<>>),
     OrdersFileOf(TRUE, "ok", "ok", 5, TRUE, Mumbai),
     OrdersFileOf(TRUE, "ok", "ok", 0, FALSE, <<>>),
     OrdersFileOf(FALSE, "ok", "ok", 5, FALSE, <<>>),
     OrdersFileOf(TRUE, "CSV_TOO_FEW_ROWS", "ok", 5, FALSE, <<>>),
     OrdersFileOf(TRUE, "ok", "DATE_MIXED_FORMATS", 5, FALSE, <<>>)}
WeatherFileOf(reads, parse, normalize, days, misshapen) ==
    [present |-> TRUE, reads |-> reads, parse |-> parse, normalize |-> normalize,
     days |-> days, misshapen |-> misshapen]
WeatherFiles ==
    {NoFile,
     WeatherFileOf(TRUE, "ok", "ok", 1..2, TRUE),
     WeatherFileOf(TRUE, "ok", "ok", {BatchSize + 10}, FALSE),
     WeatherFileOf(FALSE, "ok", "ok", 1..2, FALSE),
     WeatherFileOf(TRUE, "MISSING_REQUIRED_COLUMN", "ok", 1..2, FALSE),
     WeatherFileOf(TRUE, "ok", "DATE_MISSING", 1..2, FALSE)}
Locations == {Delhi, <<" ">>}

LoaderInit ==
    /\ LoaderIdle
    /\ ProxyIdle
    /\ RerunIdle
    /\ MetricsIdle
    /\ CsvIdle
    /\ NormIdle
    /\ MergeIdle

\* onOrdersChange, onWeatherChange, and the onChange of the location and of the
\* auto-fetch box, between runs (a run works on the arguments of its call)
ChooseInputs ==
    /\ lpc = "idle"
    /\ runNo < MaxRuns
    /\ ordersFile' \in OrdersFiles
    /\ weatherFile' \in WeatherFiles
    /\ location' \in Locations \cup {location}
    /\ autoFetchWeather' \in BOOLEAN
    /\ UNCHANGED <<runProgress, state, lpc, runNo, run, mergeVars, normVars, csvVars,
                   metricsVars, rerunVars, proxyVars>>

\* if (!ordersFileArg) { setState(... FILE_NOT_SELECTED); return }
RunWithoutOrders ==
    /\ lpc = "idle"
    /\ ~ordersFile.present
    /\ state' = [state EXCEPT !.error = [code |-> "FILE_NOT_SELECTED",
                                         message |-> "Select an orders CSV file."]]
    /\ UNCHANGED <<ordersFile, weatherFile, location, autoFetchWeather, runProgress, lpc,
                   runNo, run, mergeVars, normVars, csvVars, metricsVars, rerunVars, proxyVars>>

\* autoFetchWeather && String(location).trim()
CanFetch == autoFetchWeather /\ Trim(location) # <<>>

\* if (!weatherFileArg && !(autoFetchWeather && ...)) { setState(...); return }
RunWithoutWeather ==
    /\ lpc = "idle"
    /\ ordersFile.present
    /\ ~weatherFile.present /\ ~CanFetch
    /\ state' = [state EXCEPT !.error = [code |-> "WEATHER_SOURCE_MISSING",
                                         message |-> "Provide a weather CSV or enable auto-fetch"]]
    /\ UNCHANGED <<ordersFile, weatherFile, location, autoFetchWeather, runProgress, lpc,
                   runNo, run, mergeVars, normVars, csvVars, metricsVars, rerunVars, proxyVars>>

\* setRunProgress({ phase: 'Starting' }); setState(loading: true, error: null,
\* warnings: []); the run then waits for the orders file
StartRun ==
    /\ lpc = "idle"
    /\ runNo < MaxRuns
    /\ ordersFile.present
    /\ weatherFile.present \/ CanFetch
    /\ runProgress' = [phase |-> "Starting"]
    /\ state' = [state EXCEPT !.loading = TRUE, !.error = NoAppError, !.warnings = <<>>]
    /\ run' = [FreshRun EXCEPT !.ordersFileArg = ordersFile, !.weatherFileArg = weatherFile,
                               !.location = location]
    /\ runNo' = runNo + 1
    /\ lpc' = "readOrders"
    /\ UNCHANGED <<ordersFile, weatherFile, location, autoFetchWeather, mergeVars, normVars,
                   csvVars, metricsVars, rerunVars, proxyVars>>

\* a stage has given outcome: the run goes on to next, or to its catch with the error
\* of the stage (if (!x.ok) throw x.error)
StageGives(name, outcome, next) ==
    /\ run' = [run EXCEPT ![name] = outcome,
                          !.err = IF outcome.ok THEN @ ELSE outcome.error]
    /\ lpc' = IF outcome.ok THEN next ELSE "catch"

\* const ordersText = await readFileAsText(ordersFileArg)
ReadOrders ==
    /\ lpc = "readOrders"
    /\ StageGives("ordersText", readFileAsText(run.ordersFileArg), "parseOrders")
    /\ UNCHANGED <<ordersFile, weatherFile, location, autoFetchWeather, runProgress, state,
                   runNo, mergeVars, normVars, csvVars, metricsVars, rerunVars, proxyVars>>

\* const parsedOrders = parseCsvText(ordersText, { sourceName: 'orders' })
ParseOrders ==
    /\ lpc = "parseOrders"
    /\ StageGives("parsedOrders", ParseOutcome(run.ordersFileArg, "orders"),
                  IF run.weatherFileArg.present THEN "readWeather" ELSE "normalizeOrders")
    /\ UNCHANGED <<ordersFile, weatherFile, location, autoFetchWeather, runProgress, state,
                   runNo, mergeVars, normVars, csvVars, metricsVars, rerunVars, proxyVars>>

\* const weatherText = await readFileAsText(weatherFileArg)
ReadWeather ==
    /\ lpc = "readWeather"
    /\ StageGives("weatherText", readFileAsText(run.weatherFileArg), "parseWeather")
    /\ UNCHANGED <<ordersFile, weatherFile, location, autoFetchWeather, runProgress, state,
                   runNo, mergeVars, normVars, csvVars, metricsVars, rerunVars, proxyVars>>

\* parsedWeather = parseCsvText(weatherText, { sourceName: 'weather' })
ParseWeather ==
    /\ lpc = "parseWeather"
    /\ StageGives("parsedWeather", ParseOutcome(run.weatherFileArg, "weather"),
                  "normalizeOrders")
    /\ UNCHANGED <<ordersFile, weatherFile, location, autoFetchWeather, runProgress, state,
                   runNo, mergeVars, normVars, csvVars, metricsVars, rerunVars, proxyVars>>

\* if (inferredLocation && location === 'Delhi') setLocation(inferredLocation), then
\* const normalizedOrders = normalizeDatesInRows(parsedOrders.rows, ...)
NormalizeOrders ==
    /\ lpc = "normalizeOrders"
    /\ location' = IF /\ defaultLocationFromCity(run.ordersFileArg.city) # <<>>
                      /\ run.location = Delhi
                   THEN defaultLocationFromCity(run.ordersFileArg.city)
                   ELSE location
    /\ StageGives("normalizedOrders",
                  NormalizeOutcome(run.ordersFileArg.normalize, run.parsedOrders.days, "orders"),
                  IF run.parsedWeather.ran THEN "normalizeWeather" ELSE "beginFetch")
    /\ UNCHANGED <<ordersFile, weatherFile, autoFetchWeather, runProgress, state,
                   runNo, mergeVars, normVars, csvVars, metricsVars, rerunVars, proxyVars>>

\* setRunProgress({ phase: 'Normalizing' });
\* normalizedWeather = normalizeDatesInRows(parsedWeather.rows, ...)
NormalizeWeather ==
    /\ lpc = "normalizeWeather"
    /\ runProgress' = [phase |-> "Normalizing"]
    /\ StageGives("normalizedWeather",
                  NormalizeOutcome(run.weatherFileArg.normalize, run.parsedWeather.days,
                                   "weather"),
                  "merge")
    /\ UNCHANGED <<ordersFile, weatherFile, location, autoFetchWeather, state,
                   runNo, mergeVars, normVars, csvVars, metricsVars, rerunVars, proxyVars>>

\* const uniqueDates = ...; setRunProgress({ phase: 'Fetching weather' }); the call of
\* fetchWeatherInBatches up to its loop
BeginFetch ==
    /\ lpc = "beginFetch"
    /\ runProgress' = [phase |-> "Fetching weather"]
    /\ run' = [run EXCEPT !.uniqueDates = run.normalizedOrders.days, !.batch = 0]
    /\ lpc' = "fetch"
    /\ UNCHANGED <<ordersFile, weatherFile, location, autoFetchWeather, state,
                   runNo, mergeVars, normVars, csvVars, metricsVars, rerunVars, proxyVars>>

\* const bulk = await fetchWeatherBulk(...) returns json;
\* rows.push(...bulk.rows); failures.push(...bulk.failures)
FetchBatchAnswers ==
    /\ lpc = "fetch"
    /\ run.batch < NumBatches(run.uniqueDates)
    /\ \E answered \in BulkAnswers(BatchOf(run.uniqueDates, run.batch)) :
          run' = [run EXCEPT
                    !.batch = @ + 1,
                    !.bulkDays = @ \cup answered,
                    !.fetchFailures = @ \cup (BatchOf(run.uniqueDates, run.batch) \ answered)]
    /\ UNCHANGED <<ordersFile, weatherFile, location, autoFetchWeather, runProgress, state,
                   lpc, runNo, mergeVars, normVars, csvVars, metricsVars, rerunVars, proxyVars>>

\* await fetchWeatherBulk(...) throws; fetchWeatherInBatches has no catch and the
\* await of onLoad is inside its try
FetchBatchThrows ==
    /\ lpc = "fetch"
    /\ run.batch < NumBatches(run.uniqueDates)
    /\ \E e \in BulkThrows :
          StageGives("bulk", Failed(e.code, e.message), "catch")
    /\ UNCHANGED <<ordersFile, weatherFile, location, autoFetchWeather, runProgress, state,
                   runNo, mergeVars, normVars, csvVars, metricsVars, rerunVars, proxyVars>>

\* fetchWeatherInBatches returns { rows, failures }; normalizedApiWeather =
\* normalizeDatesInRows(apiWeatherRows, ...); normalizedWeather gets its warnings and
\* one more when a date failed
NormalizeApiWeather ==
    /\ lpc = "fetch"
    /\ run.batch = NumBatches(run.uniqueDates)
    /\ \E api \in {NormalizeOutcome("ok", run.bulkDays, "weather")} :
          run' = [run EXCEPT
                    !.bulk = WentThrough(<<>>, run.bulkDays),
                    !.normalizedWeather =
                        WentThrough(api.warnings \o (IF run.fetchFailures # {}
                                                THEN <<Warning("fetch", "weather")>>
                                                ELSE <<>>),
                               api.days)]
    /\ lpc' = "merge"
    /\ UNCHANGED <<ordersFile, weatherFile, location, autoFetchWeather, runProgress, state,
                   runNo, mergeVars, normVars, csvVars, metricsVars, rerunVars, proxyVars>>

\* setRunProgress({ phase: 'Merging' }); const merged = mergeOrdersWithWeather(...)
Merge ==
    /\ lpc = "merge"
    /\ runProgress' = [phase |-> "Merging"]
    /\ StageGives("mergedOutcome",
                  MergeOutcome(run.normalizedOrders.days, run.normalizedWeather.days),
                  "metrics")
    /\ UNCHANGED <<ordersFile, weatherFile, location, autoFetchWeather, state,
                   runNo, mergeVars, normVars, csvVars, metricsVars, rerunVars, proxyVars>>

\* setRunProgress({ phase: 'Metrics' }); const metrics = calculateMetricsAndCharts(...)
Metrics ==
    /\ lpc = "metrics"
    /\ runProgress' = [phase |-> "Metrics"]
    /\ StageGives("metrics", MetricsOutcome(run.mergedOutcome.days), "store")
    /\ UNCHANGED <<ordersFile, weatherFile, location, autoFetchWeather, state,
                   runNo, mergeVars, normVars, csvVars, metricsVars, rerunVars, proxyVars>>

\* what the setState of the try stores of a run
StoredBy(r, n) ==
    [rawOrders |-> [ofRun |-> n, days |-> r.parsedOrders.days],
     rawWeather |-> [ofRun |-> n,
                     days |-> IF r.parsedWeather.ran THEN r.parsedWeather.days
                              ELSE r.normalizedWeather.days],
     mergedData |-> [ofRun |-> n, days |-> r.mergedOutcome.days],
     kpis |-> [ofRun |-> n, totalDays |-> Cardinality(r.metrics.days)],
     chartData |-> [ofRun |-> n, days |-> r.metrics.days],
     warnings |-> RunWarnings(r),
     loading |-> FALSE,
     error |-> NoAppError]

\* setState((s) => ({ ...s, rawOrders, ..., loading: false, error: null }));
\* setRunProgress(null)
Store ==
    /\ lpc = "store"
    /\ state' = StoredBy(run, runNo)
    /\ runProgress' = NoProgress
    /\ run' = FreshRun
    /\ lpc' = "idle"
    /\ UNCHANGED <<ordersFile, weatherFile, location, autoFetchWeather, runNo, mergeVars,
                   normVars, csvVars, metricsVars, rerunVars, proxyVars>>

\* catch (err): setState((s) => ({ ...s, loading: false, error: { code, message } }));
\* setRunProgress(null)
Catch ==
    /\ lpc = "catch"
    /\ state' = [state EXCEPT !.loading = FALSE, !.error = ErrorShown(run.err)]
    /\ runProgress' = NoProgress
    /\ run' = FreshRun
    /\ lpc' = "idle"
    /\ UNCHANGED <<ordersFile, weatherFile, location, autoFetchWeather, runNo, mergeVars,
                   normVars, csvVars, metricsVars, rerunVars, proxyVars>>

\* the steps of a run that is under way
RunStep ==
    \/ ReadOrders
    \/ ParseOrders
    \/ ReadWeather
    \/ ParseWeather
    \/ NormalizeOrders
    \/ NormalizeWeather
    \/ BeginFetch
    \/ FetchBatchAnswers
    \/ FetchBatchThrows
    \/ NormalizeApiWeather
    \/ Merge
    \/ Metrics
    \/ Store
    \/ Catch

LoaderNext ==
    \/ ChooseInputs
    \/ RunWithoutOrders
    \/ RunWithoutWeather
    \/ StartRun
    \/ RunStep

LoaderSpec == LoaderInit /\ [][LoaderNext]_vars

\* every promise a run waits for settles (a FileReader fires load or error, a fetch
\* answers, fails or is aborted by its timer) and the code between two waits runs to
\* its end
LoaderLiveSpec == LoaderSpec /\ WF_vars(RunStep)

-----------------------------------------------------------------------------
(* Claims about the runs of DataLoader *)

\* a run that fetches its weather
AutoFetchRun == lpc # "idle" /\ ~run.weatherFileArg.present
\* a bulk request of the run threw: timeout, transport failure or error answer
BulkRequestFailed == AutoFetchRun /\ run.bulk.ran /\ ~run.bulk.ok
\* the run ends in the error state
EndsInError == state.loading /\ ~state'.loading /\ state'.error # NoAppError

\* C25 as stated: in an auto-fetch run a timeout, transport failure or error answer of
\* a weather request never puts the run into the error state.
C25_AsStated == [][BulkRequestFailed => ~EndsInError]_vars

\* the part of C25 that the code keeps: dates that failed inside the proxy come back as
\* failures of an ok answer; they are missing from the weather rows given to the merge,
\* one warning is added, and the run goes on to the merge
DateFailuresAreSoft ==
    [][(AutoFetchRun /\ lpc = "fetch" /\ lpc' # "fetch" /\ ~(run'.bulk.ran /\ ~run'.bulk.ok))
        => /\ lpc' = "merge"
           /\ run'.normalizedWeather.ok
           /\ run'.normalizedWeather.days = run.uniqueDates \ run.fetchFailures
           /\ (run.fetchFailures # {}
                 <=> \E k \in DOMAIN run'.normalizedWeather.warnings :
                        run'.normalizedWeather.warnings[k] = Warning("fetch", "weather"))]_vars

\* the stages of a run in the order onLoad goes through them, and the warnings' stages
StageOrder ==
    <<"ordersText", "parsedOrders", "weatherText", "parsedWeather", "normalizedOrders",
      "bulk", "normalizedWeather", "mergedOutcome", "metrics">>
StageRank(w) ==
    CASE w.stage = "parse" -> 1
      [] w.stage \in {"normalize", "fetch"} -> 2
      [] w.stage = "merge" -> 3
      [] w.stage = "metrics" -> 4

\* a run ends: loading goes from true to false
RunEnds == state.loading /\ ~state'.loading
\* what the dashboard shows
DataOf(s) == <<s.mergedData, s.kpis, s.chartData>>
\* the warnings of all the stages of the run that is under way
WarningsOfRun ==
    {w \in UNION {{run[StageOrder[i]].warnings[k] : k \in DOMAIN run[StageOrder[i]].warnings} :
                     i \in DOMAIN StageOrder} : TRUE}
WarningCountOfRun ==
    Len(run.parsedOrders.warnings) + Len(run.parsedWeather.warnings)
        + Len(run.normalizedOrders.warnings) + Len(run.normalizedWeather.warnings)
        + Len(run.mergedOutcome.warnings) + Len(run.metrics.warnings)

\* success: the data of this run and its warnings, by stage, are stored and error is null
EndsInSuccess ==
    /\ state'.error = NoAppError
    /\ run.mergedOutcome.ok /\ run.metrics.ok
    /\ state'.mergedData = [ofRun |-> runNo, days |-> run.mergedOutcome.days]
    /\ state'.kpis = [ofRun |-> runNo, totalDays |-> Cardinality(run.metrics.days)]
    /\ state'.chartData = [ofRun |-> runNo, days |-> run.metrics.days]
    /\ {state'.warnings[k] : k \in DOMAIN state'.warnings} = WarningsOfRun
    /\ Len(state'.warnings) = WarningCountOfRun
    /\ \A j, k \in DOMAIN state'.warnings :
          j < k => StageRank(state'.warnings[j]) <= StageRank(state'.warnings[k])

\* failure: error is the code (UNKNOWN when it has none) and message of the first
\* stage that failed, no stage ran after it, and the data are as they were
EndsInFailure ==
    /\ state'.error # NoAppError
    /\ \E i \in DOMAIN StageOrder :
          /\ run[StageOrder[i]].ran /\ ~run[StageOrder[i]].ok
          /\ \A j \in DOMAIN StageOrder :
                /\ j < i => (run[StageOrder[j]].ran => run[StageOrder[j]].ok)
                /\ j > i => ~run[StageOrder[j]].ran
          /\ state'.error.message = run[StageOrder[i]].error.message
          /\ state'.error.code = IF run[StageOrder[i]].error.code = "undefined" THEN "UNKNOWN"
                                 ELSE run[StageOrder[i]].error.code
    /\ DataOf(state') = DataOf(state)

====
